---- MODULE Spec2Model ----
(***************************************************************************)
(* Model of the democracy/authoritarianism transition simulator:           *)
(*   - the sensitivity engine (sensitivity.js: findParameterForPsi,        *)
(*     analyzeSensitivity), checked under SpecSens;                        *)
(*   - the agent / society / simulator core (agent.js, society.js,         *)
(*     equations.js, simulator.js), checked under Spec.                    *)
(*                                                                         *)
(* Real numbers are fixed-point integers.  Parameter values p, order       *)
(* parameter values psi and tolerances of the sensitivity engine are       *)
(* counted in units of 1/PUnit; PUnit = 25 * 2^14 makes every bisection    *)
(* midpoint of the ranges [0,1] and [0,2], the targets 0 and 0.3 and the   *)
(* tolerance 0.02 exact integers.  Agent and society fields are counted    *)
(* in hundredths (Scale).                                                  *)
(***************************************************************************)
EXTENDS Integers, Sequences, FiniteSets, TLC

\* ---------------------------------------------------------------------
\* Fixed-point helpers
\* ---------------------------------------------------------------------
PUnit == 25 * 16384

Min2(a, b) == IF a < b THEN a ELSE b
Max2(a, b) == IF a > b THEN a ELSE b
Abs(a) == IF a < 0 THEN 0 - a ELSE a

Unset == 0 - 1

\* ---------------------------------------------------------------------
\* Sensitivity engine: constants of the code
\* ---------------------------------------------------------------------
maxIterations == 30

\* targets and tolerance passed by analyzeSensitivity: 0, 0.3 and 0.02
TargetAutocratic == 0
TargetDemocratic == (3 * PUnit) \div 10
SweepTolerance == (2 * PUnit) \div 100

\* parametersToAnalyze, in the order of the array literal
parametersToAnalyze ==
    << [key |-> "beta1", min |-> 0, max |-> 2 * PUnit, virtuous |-> TRUE],
       [key |-> "beta2", min |-> 0, max |-> 2 * PUnit, virtuous |-> FALSE],
       [key |-> "beta3", min |-> 0, max |-> 2 * PUnit, virtuous |-> TRUE],
       [key |-> "beta4", min |-> 0, max |-> 2 * PUnit, virtuous |-> FALSE],
       [key |-> "mu1", min |-> 0, max |-> PUnit, virtuous |-> TRUE],
       [key |-> "mu2", min |-> 0, max |-> PUnit, virtuous |-> FALSE],
       [key |-> "mu3", min |-> 0, max |-> PUnit, virtuous |-> FALSE] >>

\* ---------------------------------------------------------------------
\* Bounds of the model
\* ---------------------------------------------------------------------
\* a direct call of findParameterForPsi with a noisy response searches a
\* range of 50 * 2^NoisyDepth units, i.e. NoisyDepth bisection iterations
NoisyDepth == 2

\* ---------------------------------------------------------------------
\* The averaged order parameter psi(p) seen by the search
\* (simulateToSteadyState is stochastic: one response of the model is
\* either a deterministic curve or "noisy", any value at any evaluation)
\* ---------------------------------------------------------------------
Pow2(n) == IF n <= 0 THEN 1 ELSE 2 ^ n

Linear(a, slope5) ==
    [kind |-> "linear", a |-> a, slope5 |-> slope5, c |-> 0, lo |-> 0, hi |-> 0]
StepAt(c, lo, hi) ==
    [kind |-> "step", a |-> 0, slope5 |-> 0, c |-> c, lo |-> lo, hi |-> hi]
Noisy ==
    [kind |-> "noisy", a |-> 0, slope5 |-> 0, c |-> 0, lo |-> 0, hi |-> 0]

Hundredths(n) == (n * PUnit) \div 100

Responses ==
    { Linear(0, 5),                                   \* psi(p) = p
      Linear(Hundredths(10), 1),                      \* 0.1 + 0.2 p
      Linear(Hundredths(0 - 20), 2),                  \* -0.2 + 0.4 p
      Linear(Hundredths(0 - 50), 1),                  \* -0.5 + 0.2 p
      Linear(Hundredths(100), 0 - 5),                 \* 1 - p
      Linear(Hundredths(60), 0 - 2),                  \* 0.6 - 0.4 p
      StepAt(PUnit \div 2, Hundredths(10), Hundredths(31)),
      StepAt(PUnit \div 2, Hundredths(0 - 10), Hundredths(50)),
      StepAt(PUnit \div 2, Hundredths(31), Hundredths(0 - 10)),
      StepAt(PUnit \div 2, Hundredths(50), Hundredths(1)) }

\* values a noisy evaluation can return: below, on and above every
\* comparison point of the search for the targets 0 and 0.3
PsiVals ==
    { Hundredths(0 - 10), Hundredths(0 - 1), 0, Hundredths(2),
      Hundredths(10), Hundredths(28), Hundredths(29), Hundredths(30),
      Hundredths(32), Hundredths(40) }

\* psi of a deterministic response at p
PsiAt(r, p) ==
    IF r.kind = "linear" THEN r.a + (r.slope5 * p) \div 5
    ELSE IF p < r.c THEN r.lo ELSE r.hi

\* the values one call of simulateToSteadyState can return at p
simulateToSteadyState(r, p) ==
    IF r.kind = "noisy" THEN PsiVals ELSE {PsiAt(r, p)}

VARIABLES
    pc,             \* position of the engine: "idle", "bounds", "loop", "done"
    entry,          \* who called findParameterForPsi: "none", "sweep", "direct"
    response,       \* the psi response of the system under analysis
    callArgs,       \* arguments of the running findParameterForPsi call
    psiMin, psiMax, \* psi measured at pMin and at pMax
    low, high,      \* the bracket
    bestCandidate,
    iteration,
    psiFinal,
    result,         \* value returned by findParameterForPsi
    evals,          \* number of simulateToSteadyState calls of the call
    cands,          \* midpoints whose psi satisfied the condition
    paramsCopy,     \* params, findParameterForPsi's copy of baseParams
    warned,         \* kinds of the warnings the running call has logged
    sweepI,         \* index i of analyzeSensitivity's loop (1-based)
    sweepPhase,     \* "autocratic" or "democratic" search of parameter i
    pAutocratic,
    results,        \* results object of analyzeSensitivity
    progress        \* invocations of progressCallback, in order

sensVars == << pc, entry, response, callArgs, psiMin, psiMax, low, high,
               bestCandidate, iteration, psiFinal, result, evals, cands,
               paramsCopy, warned, sweepI, sweepPhase, pAutocratic, results, progress >>

searchVars == << psiMin, psiMax, low, high, bestCandidate, iteration,
                 psiFinal, result, evals, cands, paramsCopy,
                 warned >>

sweepVars == << sweepI, sweepPhase, pAutocratic, results, progress >>

\* the live simulator (simulator.js) with its agents and society
VARIABLES
    numAgents,
    agents,         \* Simulator.agents: id -> agent object
    society,        \* the macroscopic fields of Simulator.society
    history,        \* Society.history: six parallel series
    parameters,     \* Simulator.parameters
    time,
    dt,
    running,
    steps,          \* number of Simulator.step calls so far
    calls,          \* number of calls of the other methods so far
    lastOp,         \* the last operation that ran
    lastArg,        \* the name argument of the last operation, if any
    pre,            \* agents, society and dt the last update started from
    recorded        \* history samples recorded since construction or reset

simVars == << numAgents, agents, society, history, parameters, time, dt,
              running, steps, calls, lastOp, lastArg, pre, recorded >>

\* the simulator's variables other than the parameters object
simFrame == << numAgents, agents, society, history, time, dt, running,
               steps, calls, lastOp, lastArg, pre, recorded >>

\* one call of simulateToSteadyState (sensitivity.js)
VARIABLES
    sspc,            \* "idle", "realizations", "returned"
    ssArgs,          \* arguments of the call
    numRealizations, \* the parameter, after its default was applied
    psiValues,       \* final psi of the realizations run so far
    returned,        \* what the caller receives
    console          \* lines written with console.log by the call

\* one call of singleRealization (sensitivity.js)
VARIABLES
    rpc,             \* "idle", "loop", "break", "returned"
    rArgs,           \* params, tMax and dt of the call
    rAgents,         \* the realization's own agents
    rSociety,        \* the realization's own society
    rStep,           \* the loop variable step
    rTime,           \* the local variable time
    rExecuted,       \* number of integration steps executed by the call
    rResult          \* the value returned

realVars == << sspc, ssArgs, numRealizations, psiValues, returned, console,
               rpc, rArgs, rAgents, rSociety, rStep, rTime, rExecuted,
               rResult >>

realizationVars == << rpc, rArgs, rAgents, rSociety, rStep, rTime,
                     rExecuted, rResult >>

steadyStateVars == << sspc, ssArgs, numRealizations, psiValues, returned,
                      console >>

\* the page (main.js): animation loop, buttons and the deferred analysis
VARIABLES
    animationFrameId,       \* 0 stands for null
    scheduled,              \* frames requested, neither run nor cancelled
    framesRequested,        \* requestAnimationFrame calls so far
    startBtnDisabled,
    pauseBtnDisabled,
    sensitivityBtnDisabled,
    analysisPending,        \* the setTimeout callback has not run yet
    wasRunning,             \* the constant the pending callback captured
    sensitivityZones,       \* "null" or "zones"
    uiEvents,               \* events handled so far
    resetSinceStart         \* Reset was clicked and Start was not since

uiVars == << animationFrameId, scheduled, framesRequested,
             startBtnDisabled, pauseBtnDisabled, sensitivityBtnDisabled,
             analysisPending, wasRunning, sensitivityZones, uiEvents,
             resetSinceStart >>

vars == << sensVars, simVars, realVars, uiVars >>

NoArgs == [paramName |-> "none", targetPsi |-> 0, pMin |-> 0, pMax |-> 0,
           tolerance |-> 0, extremum |-> "min"]

EmptyResults == [k \in {} |-> 0]

\* no copy of the parameters exists
NoParams == [k \in {} |-> 0]

\* state of a findParameterForPsi call before its first statement
ClearSearch ==
    /\ psiMin = Unset /\ psiMax = Unset /\ low = Unset /\ high = Unset
    /\ bestCandidate = Unset /\ iteration = 0 /\ psiFinal = Unset
    /\ result = Unset /\ evals = 0 /\ cands = {}
    /\ paramsCopy = NoParams /\ warned = {}

ClearSearchNext ==
    /\ psiMin' = Unset /\ psiMax' = Unset /\ low' = Unset /\ high' = Unset
    /\ bestCandidate' = Unset /\ iteration' = 0 /\ psiFinal' = Unset
    /\ result' = Unset /\ evals' = 0 /\ cands' = {}
    /\ paramsCopy' = NoParams /\ warned' = {}

\* the page as loaded: no frame requested, no analysis asked for, and
\* no button disabled by a handler yet
UiIdle ==
    /\ animationFrameId = 0 /\ scheduled = {} /\ framesRequested = 0
    /\ startBtnDisabled = FALSE /\ pauseBtnDisabled = FALSE
    /\ sensitivityBtnDisabled = FALSE
    /\ analysisPending = FALSE /\ wasRunning = FALSE
    /\ sensitivityZones = "null"
    /\ uiEvents = 0 /\ resetSinceStart = FALSE

\* no call of simulateToSteadyState is running
RealIdle ==
    /\ sspc = "idle" /\ ssArgs = [numRealizations |-> Unset]
    /\ numRealizations = 0 /\ psiValues = << >>
    /\ returned = [k \in {} |-> 0] /\ console = << >>
    /\ rpc = "idle" /\ rArgs = [k \in {} |-> 0]
    /\ rAgents = [k \in {} |-> 0] /\ rSociety = [k \in {} |-> 0]
    /\ rStep = 0 /\ rTime = 0 /\ rExecuted = 0 /\ rResult = Unset

SensIdle ==
    /\ pc = "idle" /\ entry = "none" /\ response = Noisy
    /\ callArgs = NoArgs
    /\ ClearSearch
    /\ sweepI = 0 /\ sweepPhase = "none" /\ pAutocratic = Unset
    /\ results = EmptyResults /\ progress = << >>

\* ---------------------------------------------------------------------
\* findParameterForPsi
\* ---------------------------------------------------------------------
isIncreasing == psiMax > psiMin

\* a parameter value of the simulator (hundredths) in search units
ParameterUnit == PUnit \div (10 * 10)

\* Object.assign(Object.create(Object.getPrototypeOf(baseParams)),
\* baseParams): a new object with the fields of baseParams
CloneParameters(base) == [k \in DOMAIN base |-> base[k] * ParameterUnit]

\* variant: params is baseParams itself, the assignment writes through
AssignParam_Aliased(base, copy, name, p) ==
    [base |-> [base EXCEPT ![name] = p \div ParameterUnit],
     params |-> [copy EXCEPT ![name] = p]]

\* params[paramName] = p: the objects baseParams and params afterwards
AssignParam(base, copy, name, p) ==
    [base |-> base, params |-> [copy EXCEPT ![name] = p]]

\* variant: the endpoint is chosen from extremum alone
BoundaryResult_IgnoresDirection(extremum, increasing, pMin, pMax) ==
    IF extremum = "min" THEN pMin ELSE pMax

\* "Target hors de portée": the endpoint returned
BoundaryResult(extremum, increasing, pMin, pMax) ==
    IF extremum = "min"
    THEN (IF increasing THEN pMin ELSE pMax)
    ELSE (IF increasing THEN pMax ELSE pMin)

\* evaluation at both bounds, the reachability test and either the early
\* return or the initialisation of the bracket
EvaluateBounds ==
    /\ pc = "bounds"
    /\ LET atMin == AssignParam(parameters, CloneParameters(parameters),
                                callArgs.paramName, callArgs.pMin)
           atMax == AssignParam(atMin.base, atMin.params,
                                callArgs.paramName, callArgs.pMax)
       IN
       \E pLo \in simulateToSteadyState(response,
                                        atMin.params[callArgs.paramName]),
          pHi \in simulateToSteadyState(response,
                                        atMax.params[callArgs.paramName]) :
         /\ paramsCopy' = atMax.params
         /\ parameters' = atMax.base
         /\ psiMin' = pLo
         /\ psiMax' = pHi
         /\ evals' = evals + 2
         /\ IF callArgs.targetPsi < Min2(pLo, pHi)
               \/ callArgs.targetPsi > Max2(pLo, pHi)
            THEN /\ result' = BoundaryResult(callArgs.extremum, pHi > pLo,
                                             callArgs.pMin, callArgs.pMax)
                 /\ warned' = {"targetOutOfRange"}
                 /\ pc' = "done"
                 /\ UNCHANGED << low, high, bestCandidate >>
            ELSE /\ low' = callArgs.pMin
                 /\ high' = callArgs.pMax
                 /\ bestCandidate' =
                      IF callArgs.extremum = "min" THEN callArgs.pMax
                                                    ELSE callArgs.pMin
                 /\ pc' = "loop"
                 /\ UNCHANGED << result, warned >>
    /\ UNCHANGED << entry, response, callArgs, iteration, psiFinal, cands >>
    /\ UNCHANGED sweepVars
    /\ UNCHANGED << simFrame, realVars, uiVars >>

\* variant: the loop is bounded by the iteration count only
LoopCondition_NoWidthTest ==
    iteration < maxIterations

\* while (iteration < maxIterations && (high - low) > tolerance * 0.01)
LoopCondition ==
    /\ iteration < maxIterations
    /\ (high - low) * 100 > callArgs.tolerance

satisfiesCondition(psiMid, targetPsi, tolerance) ==
    IF targetPsi = 0
    THEN psiMid <= 0 + tolerance
    ELSE psiMid >= targetPsi - tolerance /\ psiMid <= targetPsi + tolerance

\* bestCandidate after a midpoint
UpdateCandidate(best, mid, sat, extremum) ==
    IF sat /\ extremum = "min" /\ mid < best THEN mid
    ELSE IF sat /\ extremum = "max" /\ mid > best THEN mid
    ELSE best

\* variant: the bracket moves as if psi were decreasing when it increases
Navigate_Inverted(lo, hi, mid, psiMid, targetPsi, increasing) ==
    IF increasing
    THEN (IF psiMid < targetPsi THEN << lo, mid >> ELSE << mid, hi >>)
    ELSE (IF psiMid < targetPsi THEN << mid, hi >> ELSE << lo, mid >>)

\* the bracket << low, high >> after a midpoint
Navigate(lo, hi, mid, psiMid, targetPsi, increasing) ==
    IF increasing
    THEN (IF psiMid < targetPsi THEN << mid, hi >> ELSE << lo, mid >>)
    ELSE (IF psiMid < targetPsi THEN << lo, mid >> ELSE << mid, hi >>)

\* variant: half the width of the bracket, its lower edge left out
Midpoint_HalfWidth(lo, hi) == (hi - lo) \div 2

\* (low + high) / 2
Midpoint(lo, hi) == (lo + hi) \div 2

\* one pass of the while loop
BisectionIteration ==
    /\ pc = "loop"
    /\ LoopCondition
    /\ LET mid == Midpoint(low, high)
           atMid == AssignParam(parameters, paramsCopy, callArgs.paramName, mid)
       IN
       \E psiMid \in simulateToSteadyState(response,
                                          atMid.params[callArgs.paramName]) :
         LET sat == satisfiesCondition(psiMid, callArgs.targetPsi,
                                       callArgs.tolerance)
             br == Navigate(low, high, mid, psiMid, callArgs.targetPsi,
                            isIncreasing)
         IN /\ paramsCopy' = atMid.params
            /\ parameters' = atMid.base
            /\ bestCandidate' =
                 UpdateCandidate(bestCandidate, mid, sat, callArgs.extremum)
            /\ cands' = IF sat THEN cands \cup {mid} ELSE cands
            /\ low' = br[1]
            /\ high' = br[2]
            /\ iteration' = iteration + 1
            /\ evals' = evals + 1
    /\ UNCHANGED << pc, entry, response, callArgs, psiMin, psiMax, psiFinal,
                    result, warned >>
    /\ UNCHANGED sweepVars
    /\ UNCHANGED << simFrame, realVars, uiVars >>

\* "Retourner le meilleur candidat ou le résultat de la dichotomie"
FinalResult(best, lo, hi, finalMid, psiF, targetPsi, tolerance, extremum) ==
    IF Abs(psiF - targetPsi) < tolerance
    THEN (IF extremum = "min" THEN Min2(best, finalMid)
                              ELSE Max2(best, finalMid))
    ELSE (IF best # (IF extremum = "min" THEN hi ELSE lo) THEN best
                                                           ELSE finalMid)

\* the statements after the loop
FinalRefine ==
    /\ pc = "loop"
    /\ ~LoopCondition
    /\ LET finalMid == Midpoint(low, high)
           atFinal == AssignParam(parameters, paramsCopy, callArgs.paramName,
                                  finalMid)
       IN
       \E psiF \in simulateToSteadyState(response,
                                        atFinal.params[callArgs.paramName]) :
         /\ paramsCopy' = atFinal.params
         /\ parameters' = atFinal.base
         /\ psiFinal' = psiF
         /\ evals' = evals + 1
         /\ result' = FinalResult(bestCandidate, low, high, finalMid, psiF,
                                  callArgs.targetPsi, callArgs.tolerance,
                                  callArgs.extremum)
    /\ pc' = "done"
    /\ UNCHANGED << entry, response, callArgs, psiMin, psiMax, low, high,
                    bestCandidate, iteration, cands, warned >>
    /\ UNCHANGED sweepVars
    /\ UNCHANGED << simFrame, realVars, uiVars >>

\* a caller outside analyzeSensitivity calls findParameterForPsi
DirectPMin == PUnit \div 2
DirectArgs ==
    { [paramName |-> "beta1", targetPsi |-> t, pMin |-> DirectPMin,
       pMax |-> DirectPMin + 50 * Pow2(NoisyDepth),
       tolerance |-> SweepTolerance, extremum |-> e] :
      t \in {TargetAutocratic, TargetDemocratic}, e \in {"min", "max"} }

findParameterForPsi ==
    /\ pc = "idle"
    /\ \E a \in DirectArgs : callArgs' = a
    /\ response' = Noisy
    /\ entry' = "direct"
    /\ pc' = "bounds"
    /\ ClearSearchNext
    /\ UNCHANGED sweepVars
    /\ UNCHANGED << simVars, realVars, uiVars >>

\* the direct caller receives the result
DirectReturn ==
    /\ pc = "done"
    /\ entry = "direct"
    /\ pc' = "idle"
    /\ entry' = "none"
    /\ callArgs' = NoArgs
    /\ ClearSearchNext
    /\ UNCHANGED << response >>
    /\ UNCHANGED sweepVars
    /\ UNCHANGED << simVars, realVars, uiVars >>

\* ---------------------------------------------------------------------
\* analyzeSensitivity
\* ---------------------------------------------------------------------
\* variant: the extrema are not swapped for a harmful parameter
SearchExtremum_NotSwapped(virtuous, phase) ==
    IF phase = "autocratic" THEN "max" ELSE "min"

\* the extremum requested for a search of a parameter
SearchExtremum(virtuous, phase) ==
    IF virtuous
    THEN (IF phase = "autocratic" THEN "max" ELSE "min")
    ELSE (IF phase = "autocratic" THEN "min" ELSE "max")

SearchTarget(phase) ==
    IF phase = "autocratic" THEN TargetAutocratic ELSE TargetDemocratic

SearchArgs(param, phase) ==
    [paramName |-> param.key, targetPsi |-> SearchTarget(phase),
     pMin |-> param.min, pMax |-> param.max, tolerance |-> SweepTolerance,
     extremum |-> SearchExtremum(param.virtuous, phase)]

total == Len(parametersToAnalyze)

\* entry of analyzeSensitivity up to its first findParameterForPsi call
\* variant: the index passed is the 0-based loop index
ProgressEntry_ZeroBased(k) == << parametersToAnalyze[k].key, k - 1, total >>

\* arguments of progressCallback for the k-th parameter (k = i + 1)
ProgressEntry(k) == << parametersToAnalyze[k].key, k, total >>

analyzeSensitivity ==
    /\ pc = "idle"
    /\ \E r \in Responses : response' = r
    /\ entry' = "sweep"
    /\ results' = EmptyResults
    /\ sweepI' = 1
    /\ progress' = << ProgressEntry(1) >>
    /\ sweepPhase' = "autocratic"
    /\ pAutocratic' = Unset
    /\ callArgs' = SearchArgs(parametersToAnalyze[1], "autocratic")
    /\ pc' = "bounds"
    /\ ClearSearchNext
    /\ UNCHANGED << simVars, realVars, uiVars >>

\* the autocratic search returned: the democratic search is called
SweepDemocratic ==
    /\ pc = "done"
    /\ entry = "sweep"
    /\ sweepPhase = "autocratic"
    /\ pAutocratic' = result
    /\ sweepPhase' = "democratic"
    /\ callArgs' = SearchArgs(parametersToAnalyze[sweepI], "democratic")
    /\ pc' = "bounds"
    /\ ClearSearchNext
    /\ UNCHANGED << entry, response, sweepI, results, progress >>
    /\ UNCHANGED << simVars, realVars, uiVars >>

\* variant: min and max are taken to be autocratic and democratic
ZoneRecord_Unordered(pAuto, pDemo, virtuous) ==
    [autocratic |-> pAuto, democratic |-> pDemo,
     min |-> pAuto, max |-> pDemo, virtuous |-> virtuous]

ZoneRecord(pAuto, pDemo, virtuous) ==
    [autocratic |-> pAuto, democratic |-> pDemo,
     min |-> Min2(pAuto, pDemo), max |-> Max2(pAuto, pDemo),
     virtuous |-> virtuous]

\* the democratic search returned: the record is stored and the loop
\* goes on with the next parameter, or analyzeSensitivity returns
SweepNext ==
    /\ pc = "done"
    /\ entry = "sweep"
    /\ sweepPhase = "democratic"
    /\ LET param == parametersToAnalyze[sweepI] IN
         results' = (param.key :> ZoneRecord(pAutocratic, result,
                                             param.virtuous)) @@ results
    /\ IF sweepI < total
       THEN /\ sweepI' = sweepI + 1
            /\ progress' = Append(progress, ProgressEntry(sweepI + 1))
            /\ sweepPhase' = "autocratic"
            /\ callArgs' = SearchArgs(parametersToAnalyze[sweepI + 1],
                                      "autocratic")
            /\ pc' = "bounds"
            /\ entry' = "sweep"
       ELSE /\ sweepI' = 0
            /\ sweepPhase' = "none"
            /\ callArgs' = NoArgs
            /\ pc' = "idle"
            /\ entry' = "none"
            /\ UNCHANGED progress
    /\ pAutocratic' = Unset
    /\ ClearSearchNext
    /\ UNCHANGED response
    /\ UNCHANGED << simVars, realVars, uiVars >>

\* ---------------------------------------------------------------------
\* Agent, Society, equations and Simulator: fixed point in hundredths
\* ---------------------------------------------------------------------
Scale == 10 * 10
Scale3 == Scale * Scale * Scale

\* x / d rounded to the nearest integer
RoundDiv(x, d) == (x + d \div 2) \div d

\* bounds of the model
NumAgents == 2
MaxOps == 2

Ids(n) == 0 .. (n - 1)

\* Parameters (equations.js)
DefaultParameters ==
    [beta1 |-> 50, beta2 |-> 30, beta3 |-> 40, beta4 |-> 60,
     gamma1 |-> 30, gamma2 |-> 40, gamma3 |-> 50, gamma4 |-> 30,
     delta1 |-> 40, delta2 |-> 30, delta3 |-> 20, delta4 |-> 30,
     delta5 |-> 20,
     eta1 |-> 30, eta2 |-> 40, eta3 |-> 30,
     lambda1 |-> 40, lambda2 |-> 30, lambda3 |-> 30, lambda4 |-> 20,
     mu1 |-> 30, mu2 |-> 40, mu3 |-> 20,
     nu1 |-> 50, nu2 |-> 30, nu3 |-> 40,
     rho1 |-> 50, rho2 |-> 40, rho3 |-> 30, rho4 |-> 20]

\* ----- Agent ---------------------------------------------------------
RECURSIVE SumSeq(_, _, _)
\* sum of a property over a list of agent ids
SumSeq(ags, property, ids) ==
    IF ids = << >> THEN 0
    ELSE ags[Head(ids)][property] + SumSeq(ags, property, Tail(ids))

\* variant: the sum over no neighbours, 0, is returned
getNeighborhoodAverage_EmptyIsZero(ags, i, property) ==
    IF Len(ags[i].neighbors) = 0 THEN 0
    ELSE RoundDiv(SumSeq(ags, property, ags[i].neighbors),
                  Len(ags[i].neighbors))

\* Agent.getNeighborhoodAverage of agent i
getNeighborhoodAverage(ags, i, property) ==
    IF Len(ags[i].neighbors) = 0 THEN ags[i][property]
    ELSE RoundDiv(SumSeq(ags, property, ags[i].neighbors),
                  Len(ags[i].neighbors))

\* variant: the upper bound is not enforced
clamp_NoUpperBound(value, min, max) == Max2(min, value)

\* Agent.clamp
clamp(value, min, max) == Max2(min, Min2(max, value))

\* the increment d * dt of a field: d at scale Scale^3, dt in hundredths
Increment(d, step) == RoundDiv(d * step, Scale3)

\* Agent.update: the agent object after update(derivatives, dt)
AgentUpdate(a, derivatives, step) ==
    [a EXCEPT
       !.democraticAdherence =
           clamp(@ + Increment(derivatives.dAlpha, step), 0 - Scale, Scale),
       !.toleranceCultural =
           clamp(@ + Increment(derivatives.dTauC, step), 0 - Scale, Scale),
       !.toleranceEconomic = clamp(@, 0 - Scale, Scale),
       !.tolerancePhysical = clamp(@, 0 - Scale, Scale),
       !.security =
           clamp(@ + Increment(derivatives.dSecurity, step), 0, Scale),
       !.permeability =
           clamp(@ + Increment(derivatives.dPermeability, step), 0, Scale),
       !.civicEnergy =
           clamp(@ + Increment(derivatives.dCivicEnergy, step), 0, Scale),
       !.wealth = Max2(0, @)]

\* ----- Society -------------------------------------------------------
RECURSIVE SeqOfIds(_)
\* the ids 0 .. n-1 in storage order
SeqOfIds(n) == IF n = 0 THEN << >> ELSE Append(SeqOfIds(n - 1), n - 1)

Size(ags) == Cardinality(DOMAIN ags)

\* Society.getAverage
getAverage(ags, property) ==
    RoundDiv(SumSeq(ags, property, SeqOfIds(Size(ags))), Size(ags))

RECURSIVE SumSquaredDiffs(_, _, _, _)
SumSquaredDiffs(ags, property, avg, ids) ==
    IF ids = << >> THEN 0
    ELSE (ags[Head(ids)][property] - avg) * (ags[Head(ids)][property] - avg)
         + SumSquaredDiffs(ags, property, avg, Tail(ids))

\* Math.sqrt on a non-negative value, rounded down
Sqrt(x) == CHOOSE r \in 0 .. (2 * Scale) : r * r <= x /\ (r + 1) * (r + 1) > x

\* Society.getStdDev
getStdDev(ags, property) ==
    Sqrt(SumSquaredDiffs(ags, property, getAverage(ags, property),
                         SeqOfIds(Size(ags))) \div Size(ags))

RECURSIVE InsertSorted(_, _)
InsertSorted(w, sorted) ==
    IF sorted = << >> THEN << w >>
    ELSE IF w < Head(sorted) THEN << w >> \o sorted
    ELSE << Head(sorted) >> \o InsertSorted(w, Tail(sorted))

RECURSIVE SortedWealths(_, _)
\* agents.map(a => a.wealth).sort((a, b) => a - b)
SortedWealths(ags, ids) ==
    IF ids = << >> THEN << >>
    ELSE InsertSorted(ags[Head(ids)].wealth, SortedWealths(ags, Tail(ids)))

RECURSIVE GiniSum(_, _, _)
\* sum of (2 * (i + 1) - n - 1) * wealths[i], i being 0-based
GiniSum(wealths, k, n) ==
    IF k > n THEN 0
    ELSE (2 * k - n - 1) * wealths[k] + GiniSum(wealths, k + 1, n)

RECURSIVE SumList(_)
SumList(xs) == IF xs = << >> THEN 0 ELSE Head(xs) + SumList(Tail(xs))

\* Society.calculateGini
calculateGini(ags) ==
    LET n == Size(ags)
        wealths == SortedWealths(ags, SeqOfIds(n))
        totalWealth == SumList(wealths)
    IN IF totalWealth = 0 THEN 0
       ELSE RoundDiv(GiniSum(wealths, 1, n) * Scale, n * totalWealth)

\* Society.getOrderParameter
getOrderParameter(ags, soc) ==
    RoundDiv(getAverage(ags, "democraticAdherence")
               * soc.institutionalQuality, Scale)

\* variant: gini and precarity are kept as they were
SocietyUpdate_NoRecompute(soc, ags, derivatives, step) ==
    [soc EXCEPT
       !.institutionalQuality =
           Max2(0, Min2(Scale, @ + Increment(derivatives.dQ, step))),
       !.polarization =
           Max2(0, Min2(Scale, @ + Increment(derivatives.dPhi, step))),
       !.perceivedThreat =
           Max2(0, Min2(Scale, @ + Increment(derivatives.dM, step)))]

\* Society.update: the society after update(derivatives, dt), ags being
\* the agents at the time of the call
SocietyUpdate(soc, ags, derivatives, step) ==
    [soc EXCEPT
       !.institutionalQuality =
           Max2(0, Min2(Scale, @ + Increment(derivatives.dQ, step))),
       !.polarization =
           Max2(0, Min2(Scale, @ + Increment(derivatives.dPhi, step))),
       !.perceivedThreat =
           Max2(0, Min2(Scale, @ + Increment(derivatives.dM, step))),
       !.gini = calculateGini(ags),
       !.precarity = Scale - getAverage(ags, "security")]

maxHistoryLength == 1000

EmptyHistory ==
    [time |-> << >>, orderParameter |-> << >>, avgAlpha |-> << >>,
     institutionalQuality |-> << >>, polarization |-> << >>,
     perceivedThreat |-> << >>]

\* variant: the oldest row is never removed
addToHistory_NoEviction(h, ags, soc, t) ==
    [time |-> Append(h.time, t),
     orderParameter |-> Append(h.orderParameter, getOrderParameter(ags, soc)),
     avgAlpha |-> Append(h.avgAlpha, getAverage(ags, "democraticAdherence")),
     institutionalQuality |->
         Append(h.institutionalQuality, soc.institutionalQuality),
     polarization |-> Append(h.polarization, soc.polarization),
     perceivedThreat |-> Append(h.perceivedThreat, soc.perceivedThreat)]

\* Society.addToHistory
addToHistory(h, ags, soc, t) ==
    LET pushed ==
          [time |-> Append(h.time, t),
           orderParameter |->
               Append(h.orderParameter, getOrderParameter(ags, soc)),
           avgAlpha |->
               Append(h.avgAlpha, getAverage(ags, "democraticAdherence")),
           institutionalQuality |->
               Append(h.institutionalQuality, soc.institutionalQuality),
           polarization |-> Append(h.polarization, soc.polarization),
           perceivedThreat |->
               Append(h.perceivedThreat, soc.perceivedThreat)]
    IN IF Len(pushed.time) > maxHistoryLength
       THEN [key \in DOMAIN pushed |-> Tail(pushed[key])]
       ELSE pushed

\* ----- equations.js: derivatives at scale Scale^3 --------------------
computeDemocraticAdherence(ags, i, soc, params) ==
    LET agent == ags[i]
        avgAlpha == getNeighborhoodAverage(ags, i, "democraticAdherence")
        socialInfluence == agent.permeability * avgAlpha * Scale
        educationEffect ==
            params.beta1 * agent.education
              * (Scale - agent.democraticAdherence)
        insecurityErosion ==
            0 - params.beta2 * (Scale - agent.security)
                  * agent.democraticAdherence
        institutionalEffect ==
            params.beta3 * soc.institutionalQuality * Scale
        fearEffect ==
            0 - params.beta4 * soc.perceivedThreat * agent.permeability
    IN socialInfluence + educationEffect + insecurityErosion
         + institutionalEffect + fearEffect

computeCulturalTolerance(ags, i, soc, params) ==
    LET agent == ags[i]
        educationOpenness ==
            params.gamma1 * agent.education
              * (Scale - agent.toleranceCultural)
        positiveContact ==
            params.gamma2 * agent.positiveContacts
              * (Scale - agent.toleranceCultural)
        negativeContact ==
            0 - params.gamma3 * agent.negativeContacts
                  * (Scale + agent.toleranceCultural)
        identityRetreat ==
            0 - RoundDiv(params.gamma4 * (Scale - agent.security)
                           * soc.polarization * agent.toleranceCultural,
                         Scale)
    IN educationOpenness + positiveContact + negativeContact
         + identityRetreat

computeSecurity(ags, i, soc, params) ==
    LET agent == ags[i]
        avgWealth == getAverage(ags, "wealth")
        relativeWealth ==
            IF avgWealth > 0 THEN RoundDiv(agent.wealth * Scale, avgWealth)
                             ELSE Scale
        wealthEffect == params.delta1 * relativeWealth * Scale
        institutionalSafety ==
            params.delta2 * soc.institutionalQuality * Scale
        precarityEffect == 0 - params.delta3 * soc.precarity * Scale
        anxiousClimate == 0 - params.delta4 * soc.perceivedThreat * Scale
        mediaContagion ==
            0 - params.delta5 * agent.permeability * soc.polarization
    IN wealthEffect + institutionalSafety + precarityEffect
         + anxiousClimate + mediaContagion

computePermeability(ags, i, soc, params) ==
    LET agent == ags[i]
        criticalThinking ==
            0 - params.eta1 * agent.education * agent.permeability
        vulnerability ==
            params.eta2 * (Scale - agent.security)
              * (Scale - agent.permeability)
        mediaPressure ==
            params.eta3 * soc.polarization * (Scale - agent.permeability)
    IN criticalThinking + vulnerability + mediaPressure

computeCivicEnergy(ags, i, soc, params) ==
    LET agent == ags[i]
        avgEnergy == getNeighborhoodAverage(ags, i, "civicEnergy")
        availability ==
            params.lambda1 * agent.security * (Scale - agent.civicEnergy)
        survivalExhaustion ==
            0 - params.lambda2 * (Scale - agent.security) * Scale
        socialDrive == params.lambda3 * avgEnergy * Scale
        institutionalDiscouragement ==
            0 - params.lambda4 * (Scale - soc.institutionalQuality) * Scale
    IN availability + survivalExhaustion + socialDrive
         + institutionalDiscouragement

computeInstitutionalQuality(ags, soc, params) ==
    LET avgAlpha == getAverage(ags, "democraticAdherence")
        avgEnergy == getAverage(ags, "civicEnergy")
        democraticEngagement == params.mu1 * avgAlpha * avgEnergy
        authoritarianCapture ==
            0 - params.mu2 * (Scale - avgAlpha) * soc.polarization
        corruptionByInequality == 0 - params.mu3 * soc.gini * Scale
    IN democraticEngagement + authoritarianCapture + corruptionByInequality

computePolarization(ags, soc, params) ==
    LET opinionVariance == getStdDev(ags, "democraticAdherence")
        avgEducation == getAverage(ags, "education")
        opinionDivergence == params.nu1 * opinionVariance * Scale
        economicFracture == params.nu2 * soc.gini * Scale
        institutionalMediation ==
            0 - params.nu3 * avgEducation * soc.institutionalQuality
    IN opinionDivergence + economicFracture + institutionalMediation

computePerceivedThreat(ags, soc, params) ==
    LET avgTolerance == getAverage(ags, "toleranceCultural")
        avgSecurity == getAverage(ags, "security")
        realThreats == params.rho1 * soc.externalThreat * Scale
        amplification ==
            params.rho2 * soc.polarization
              * (Scale - soc.institutionalQuality)
        xenophobia == params.rho3 * soc.diversity * (Scale - avgTolerance)
        collectiveResilience == 0 - params.rho4 * avgSecurity * Scale
    IN realThreats + amplification + xenophobia + collectiveResilience

computeAgentDerivatives(ags, i, soc, params) ==
    [dAlpha |-> computeDemocraticAdherence(ags, i, soc, params),
     dTauC |-> computeCulturalTolerance(ags, i, soc, params),
     dSecurity |-> computeSecurity(ags, i, soc, params),
     dPermeability |-> computePermeability(ags, i, soc, params),
     dCivicEnergy |-> computeCivicEnergy(ags, i, soc, params)]

computeMacroDerivatives(ags, soc, params) ==
    [dQ |-> computeInstitutionalQuality(ags, soc, params),
     dPhi |-> computePolarization(ags, soc, params),
     dM |-> computePerceivedThreat(ags, soc, params)]

\* ----- Simulator -----------------------------------------------------
neighborhoodRadius == 10
fallbackK == 5

\* values drawn by Math.random() in the Agent constructor, two samples
AgentInits ==
    { [wealth |-> 50, education |-> 60, security |-> 50,
       toleranceEconomic |-> 0, tolerancePhysical |-> 10,
       toleranceCultural |-> 20, civicEnergy |-> 50, permeability |-> 50,
       democraticAdherence |-> 60],
      [wealth |-> 0, education |-> 10, security |-> 10,
       toleranceEconomic |-> 0 - 50, tolerancePhysical |-> 30,
       toleranceCultural |-> 0 - 40, civicEnergy |-> 20,
       permeability |-> 90, democraticAdherence |-> 0 - 80] }

\* positions drawn in initializeAgents: all agents within the radius of
\* each other ("cluster") or none ("spread")
Layouts == {"cluster", "spread"}

\* a third drawing of the positions: three columns, 0.15 apart
GridColumns == 3

PositionX(layout, i) ==
    IF layout = "cluster" THEN 3 * i
    ELSE IF layout = "grid" THEN 15 * (i % GridColumns) ELSE 15 * i
PositionY(layout, i) ==
    IF layout = "cluster" THEN 4 * i
    ELSE IF layout = "grid" THEN 15 * (i \div GridColumns) ELSE 0

\* new Agent(id, x, y) with the random draws t
Agent(id, x, y, t) ==
    [id |-> id, x |-> x, y |-> y,
     wealth |-> t.wealth, education |-> t.education,
     security |-> t.security,
     toleranceEconomic |-> t.toleranceEconomic,
     tolerancePhysical |-> t.tolerancePhysical,
     toleranceCultural |-> t.toleranceCultural,
     civicEnergy |-> t.civicEnergy, permeability |-> t.permeability,
     democraticAdherence |-> t.democraticAdherence,
     positiveContacts |-> 0, negativeContacts |-> 0,
     neighbors |-> << >>]

\* Simulator.initializeAgents
initializeAgents(n, layout, draws) ==
    [i \in Ids(n) |->
        Agent(i, PositionX(layout, i), PositionY(layout, i), draws[i])]

\* squared distance between agents i and j
Distance2(ags, i, j) ==
    (ags[i].x - ags[j].x) * (ags[i].x - ags[j].x)
      + (ags[i].y - ags[j].y) * (ags[i].y - ags[j].y)

RECURSIVE WithinRadius(_, _, _)
\* the other agents closer than the radius, in storage order
WithinRadius(ags, i, ids) ==
    IF ids = << >> THEN << >>
    ELSE IF Head(ids) # i
            /\ Distance2(ags, i, Head(ids))
                 < neighborhoodRadius * neighborhoodRadius
         THEN << Head(ids) >> \o WithinRadius(ags, i, Tail(ids))
         ELSE WithinRadius(ags, i, Tail(ids))

\* variant: an agent is placed before those at the same distance
ComesBefore_OrEqual(ags, i, j, k) ==
    Distance2(ags, i, j) <= Distance2(ags, i, k)

\* the comparator a.distance - b.distance of a stable sort: j, met after
\* k, is placed before k only if it is strictly nearer
ComesBefore(ags, i, j, k) ==
    Distance2(ags, i, j) < Distance2(ags, i, k)

RECURSIVE InsertByDistance(_, _, _, _)
InsertByDistance(ags, i, j, sorted) ==
    IF sorted = << >> THEN << j >>
    ELSE IF ComesBefore(ags, i, j, Head(sorted))
         THEN << j >> \o sorted
         ELSE << Head(sorted) >> \o InsertByDistance(ags, i, j, Tail(sorted))

RECURSIVE SortByDistance(_, _, _, _)
\* stable sort of the other agents by distance to agent i
SortByDistance(ags, i, ids, acc) ==
    IF ids = << >> THEN acc
    ELSE SortByDistance(ags, i, Tail(ids),
             IF Head(ids) = i THEN acc
             ELSE InsertByDistance(ags, i, Head(ids), acc))

\* Simulator.setupNeighborhoods
setupNeighborhoods(ags) ==
    LET all == SeqOfIds(Size(ags)) IN
    [i \in DOMAIN ags |->
        LET near == WithinRadius(ags, i, all)
            sorted == SortByDistance(ags, i, all, << >>)
        IN [ags[i] EXCEPT !.neighbors =
              IF Len(near) = 0
              THEN SubSeq(sorted, 1, Min2(fallbackK, Len(sorted)))
              ELSE near]]

\* new Society(agents)
Society ==
    [gini |-> 30, precarity |-> 20, diversity |-> 50,
     institutionalQuality |-> 70, polarization |-> 20,
     perceivedThreat |-> 20, externalThreat |-> 20]

\* new Simulator(n) with the given random draws
Simulator(n, layout, draws) ==
    /\ numAgents = n
    /\ agents = setupNeighborhoods(initializeAgents(n, layout, draws))
    /\ society = Society
    /\ history = EmptyHistory
    /\ parameters = DefaultParameters
    /\ time = 0
    /\ dt = 1
    /\ running = FALSE
    /\ steps = 0 /\ calls = 0 /\ lastOp = "new" /\ lastArg = "none"
    /\ recorded = 0
    /\ pre = [agents |-> setupNeighborhoods(
                             initializeAgents(n, layout, draws)),
              society |-> Society, dt |-> 1]

\* outcomes of the two Math.random() draws of a contact: no contact, or
\* a contact of the given intensity (Math.random() * 0.5)
ContactIntensities == {40}
ContactDraws ==
    {[hit |-> FALSE, intensity |-> 0]}
      \cup {[hit |-> TRUE, intensity |-> c] : c \in ContactIntensities}

\* variant: the contact fields are written only when a contact is drawn
simulateInterculturalContacts_NoZeroing(ags, draws) ==
    [i \in DOMAIN ags |->
        IF draws[i].hit
        THEN IF ags[i].toleranceCultural > 0
             THEN [ags[i] EXCEPT !.positiveContacts = draws[i].intensity]
             ELSE [ags[i] EXCEPT !.negativeContacts = draws[i].intensity]
        ELSE ags[i]]

\* Simulator.simulateInterculturalContacts
simulateInterculturalContacts(ags, draws) ==
    [i \in DOMAIN ags |->
        IF draws[i].hit
        THEN IF ags[i].toleranceCultural > 0
             THEN [ags[i] EXCEPT !.positiveContacts = draws[i].intensity,
                                 !.negativeContacts = 0]
             ELSE [ags[i] EXCEPT !.positiveContacts = 0,
                                 !.negativeContacts = draws[i].intensity]
        ELSE [ags[i] EXCEPT !.positiveContacts = 0,
                            !.negativeContacts = 0]]

RECURSIVE UpdateInTurn(_, _, _, _, _)
UpdateInTurn(ags, ids, soc, params, step) ==
    IF ids = << >> THEN ags
    ELSE UpdateInTurn(
             [ags EXCEPT ![Head(ids)] =
                 AgentUpdate(@, computeAgentDerivatives(ags, Head(ids), soc,
                                                        params), step)],
             Tail(ids), soc, params, step)

\* variant: each agent's derivatives are computed when its turn comes,
\* after the agents stored before it were updated
StepAgents_Sequential(ags, soc, params, step) ==
    UpdateInTurn(ags, SeqOfIds(Size(ags)), soc, params, step)

\* steps 2 and 4 of Simulator.step: all derivatives are computed, then
\* every agent is updated with its own
StepAgents(ags, soc, params, step) ==
    LET agentDerivatives ==
          [i \in DOMAIN ags |-> computeAgentDerivatives(ags, i, soc, params)]
    IN [i \in DOMAIN ags |-> AgentUpdate(ags[i], agentDerivatives[i], step)]

\* Simulator.step with the given outcomes of the contact draws
StepWith(draws) ==
    /\ LET contacted == simulateInterculturalContacts(agents, draws)
           macroDerivatives ==
               computeMacroDerivatives(contacted, society, parameters)
           updated == StepAgents(contacted, society, parameters, dt)
           soc == SocietyUpdate(society, updated, macroDerivatives, dt)
       IN /\ agents' = updated
          /\ society' = soc
          /\ time' = time + dt
          /\ history' =
               IF ((time + dt) \div dt) % 10 = 0
               THEN addToHistory(history, updated, soc, time + dt)
               ELSE history
          /\ recorded' =
               IF ((time + dt) \div dt) % 10 = 0
               THEN recorded + 1 ELSE recorded
          /\ pre' = [agents |-> contacted, society |-> society, dt |-> dt,
                     draws |-> draws]
    /\ steps' = steps + 1
    /\ lastOp' = "step" /\ lastArg' = "none"
    /\ UNCHANGED << numAgents, parameters, dt, running, calls >>
    /\ UNCHANGED << sensVars, realVars, uiVars >>

\* Simulator.step
Step ==
    /\ steps + calls < MaxOps
    /\ \E draws \in [Ids(numAgents) -> ContactDraws] : StepWith(draws)

\* derivatives and time steps passed by a direct caller of update
Big == 50 * Scale3
AgentDerivativeSamples ==
    { [dAlpha |-> Big, dTauC |-> 0 - Big, dSecurity |-> Big,
       dPermeability |-> 0 - Big, dCivicEnergy |-> Big],
      [dAlpha |-> Scale3, dTauC |-> 0 - Scale3, dSecurity |-> 0,
       dPermeability |-> Scale3, dCivicEnergy |-> 0 - Scale3] }
MacroDerivativeSamples ==
    { [dQ |-> Big, dPhi |-> 0 - Big, dM |-> Big],
      [dQ |-> 0 - Scale3, dPhi |-> Scale3, dM |-> 0] }
UpdateSteps == {10, 0 - 10}

\* a call of Agent.update(derivatives, dt) on agent i
AgentUpdateCall ==
    /\ steps + calls < MaxOps
    /\ \E i \in Ids(numAgents), d \in AgentDerivativeSamples,
          step \in UpdateSteps :
         /\ agents' = [agents EXCEPT ![i] = AgentUpdate(@, d, step)]
         /\ pre' = [agents |-> agents, society |-> society, dt |-> step]
    /\ calls' = calls + 1
    /\ lastOp' = "Agent.update" /\ lastArg' = "none"
    /\ UNCHANGED recorded
    /\ UNCHANGED << numAgents, society, history, parameters, time, dt,
                    running, steps >>
    /\ UNCHANGED << sensVars, realVars, uiVars >>

\* a call of Society.update(derivatives, dt)
SocietyUpdateCall ==
    /\ steps + calls < MaxOps
    /\ \E d \in MacroDerivativeSamples, step \in UpdateSteps :
         /\ society' = SocietyUpdate(society, agents, d, step)
         /\ pre' = [agents |-> agents, society |-> society, dt |-> step]
    /\ calls' = calls + 1
    /\ lastOp' = "Society.update" /\ lastArg' = "none"
    /\ UNCHANGED recorded
    /\ UNCHANGED << numAgents, agents, history, parameters, time, dt,
                    running, steps >>
    /\ UNCHANGED << sensVars, realVars, uiVars >>

\* values of the initial-condition sliders
InitialConditionValues == {0, 100}
InitialConditionNames ==
    {"institutionalQuality", "gini", "externalThreat", "polarization"}

\* Simulator.setInitialCondition
setInitialCondition ==
    /\ steps + calls < MaxOps
    /\ \E variable \in InitialConditionNames,
          value \in InitialConditionValues :
         /\ society' =
              IF variable = "institutionalQuality"
              THEN [society EXCEPT !.institutionalQuality = value]
              ELSE IF variable = "gini"
              THEN [society EXCEPT !.gini = value]
              ELSE IF variable = "externalThreat"
              THEN [society EXCEPT !.externalThreat = value]
              ELSE society
         /\ lastArg' = variable
    /\ calls' = calls + 1
    /\ lastOp' = "setInitialCondition"
    /\ UNCHANGED recorded
    /\ UNCHANGED << numAgents, agents, history, parameters, time, dt,
                    running, steps, pre >>
    /\ UNCHANGED << sensVars, realVars, uiVars >>

\* names every Parameters object answers to without owning them: they
\* are found on its prototype chain
InheritedNames == {"constructor", "toString"}

\* the names and values setParameter is called with
ParameterNames == {"beta1", "bogus", "constructor"}
ParameterValues == {0, 100}

\* param in this.parameters
HasParameter(ps, param) ==
    param \in (DOMAIN ps) \cup InheritedNames

\* if (param in this.parameters) this.parameters[param] = value: the
\* assignment creates the field when the object does not own it
AssignParameter(ps, param, value) ==
    IF HasParameter(ps, param)
    THEN [k \in (DOMAIN ps) \cup {param} |->
            IF k = param THEN value ELSE ps[k]]
    ELSE ps

\* Simulator.setParameter
setParameter ==
    /\ steps + calls < MaxOps
    /\ \E param \in ParameterNames, value \in ParameterValues :
         /\ parameters' = AssignParameter(parameters, param, value)
         /\ lastArg' = param
    /\ calls' = calls + 1
    /\ lastOp' = "setParameter"
    /\ UNCHANGED << numAgents, agents, society, history, time, dt,
                    running, steps, pre, recorded >>
    /\ UNCHANGED << sensVars, realVars, uiVars >>

\* values of the time-step slider: 0.01 and 0.1
TimeSteps == {1, 10}

\* Simulator.setTimeStep(value)
SetTimeStepTo(value) ==
    /\ dt' = value
    /\ calls' = calls + 1
    /\ lastOp' = "setTimeStep" /\ lastArg' = "none"
    /\ UNCHANGED << numAgents, agents, society, history, parameters, time,
                    running, steps, pre, recorded >>
    /\ UNCHANGED << sensVars, realVars, uiVars >>

setTimeStep ==
    /\ steps + calls < MaxOps
    /\ \E value \in TimeSteps : SetTimeStepTo(value)

\* the simulator as constructed by init()
Init ==
    /\ SensIdle
    /\ RealIdle
    /\ UiIdle
    /\ \E layout \in Layouts, draws \in [Ids(NumAgents) -> AgentInits] :
         Simulator(NumAgents, layout, draws)

Next ==
    \/ Step
    \/ AgentUpdateCall
    \/ SocietyUpdateCall
    \/ setInitialCondition
    \/ setParameter
    \/ setTimeStep

Spec == Init /\ [][Next]_vars

\* ---------------------------------------------------------------------
\* Society.addToHistory and Society.reset called directly, up to and
\* beyond the length cap
\* ---------------------------------------------------------------------
MaxAdds == 1002

\* variant: the neighbour list is emptied as in the constructor
AgentReset_ClearsNeighbors(a, t) ==
    [a EXCEPT !.wealth = t.wealth, !.education = t.education,
              !.security = t.security,
              !.toleranceEconomic = t.toleranceEconomic,
              !.tolerancePhysical = t.tolerancePhysical,
              !.toleranceCultural = t.toleranceCultural,
              !.civicEnergy = t.civicEnergy,
              !.permeability = t.permeability,
              !.democraticAdherence = t.democraticAdherence,
              !.positiveContacts = 0, !.negativeContacts = 0,
              !.neighbors = << >>]

\* Agent.reset with the random draws t
AgentReset(a, t) ==
    [a EXCEPT !.wealth = t.wealth, !.education = t.education,
              !.security = t.security,
              !.toleranceEconomic = t.toleranceEconomic,
              !.tolerancePhysical = t.tolerancePhysical,
              !.toleranceCultural = t.toleranceCultural,
              !.civicEnergy = t.civicEnergy,
              !.permeability = t.permeability,
              !.democraticAdherence = t.democraticAdherence,
              !.positiveContacts = 0, !.negativeContacts = 0]

\* Society.reset: the macroscopic fields after reset(initQ, initGini,
\* extThreat); precarity is not assigned
SocietyReset(soc, initQ, initGini, extThreat) ==
    [soc EXCEPT !.institutionalQuality = initQ, !.gini = initGini,
                !.externalThreat = extThreat, !.polarization = 20,
                !.perceivedThreat = 20, !.diversity = 50]

\* default arguments of Society.reset
ResetDefaults == [initQ |-> 70, initGini |-> 30, extThreat |-> 20]

\* a call of Society.addToHistory(t), t being the sample number
addToHistoryCall ==
    /\ recorded < MaxAdds
    /\ history' = addToHistory(history, agents, society, recorded + 1)
    /\ recorded' = recorded + 1
    /\ lastOp' = "addToHistory" /\ lastArg' = "none"
    /\ UNCHANGED << numAgents, agents, society, parameters, time, dt,
                    running, steps, calls, pre >>
    /\ UNCHANGED << sensVars, realVars, uiVars >>

\* a call of Society.reset() with its default arguments
SocietyResetCall ==
    /\ \E draws \in [Ids(numAgents) -> AgentInits] :
         agents' = [i \in DOMAIN agents |-> AgentReset(agents[i], draws[i])]
    /\ society' = SocietyReset(society, ResetDefaults.initQ,
                               ResetDefaults.initGini,
                               ResetDefaults.extThreat)
    /\ history' = EmptyHistory
    /\ recorded' = 0
    /\ lastOp' = "Society.reset" /\ lastArg' = "none"
    /\ UNCHANGED << numAgents, parameters, time, dt, running, steps, calls,
                    pre >>
    /\ UNCHANGED << sensVars, realVars, uiVars >>

\* ---------------------------------------------------------------------
\* long runs of Simulator.step with the time-step slider moved between
\* steps; no contact is drawn (Math.random() >= contactProbability)
\* ---------------------------------------------------------------------
MaxRunSteps == 10

NoContact == [hit |-> FALSE, intensity |-> 0]

RunStep ==
    /\ steps < MaxRunSteps
    /\ StepWith([i \in Ids(numAgents) |-> NoContact])

RunSetTimeStep ==
    /\ steps < MaxRunSteps
    /\ lastOp # "setTimeStep"
    /\ \E value \in TimeSteps \ {dt} : SetTimeStepTo(value)

NextRun == RunStep \/ RunSetTimeStep

SpecRun == Init /\ [][NextRun]_vars

NextHistory == addToHistoryCall \/ SocietyResetCall

SpecHistory == Init /\ [][NextHistory]_vars

\* ---------------------------------------------------------------------
\* Simulator.start, pause and reset between steps
\* ---------------------------------------------------------------------

\* reset() called without an argument: numAgents = null
NoSize == 0 - 1

\* the population sizes reset is called with: a lone agent, or as built
PopulationSizes == {1, NumAgents}

\* Simulator.start
start ==
    /\ steps + calls < MaxOps
    /\ running' = TRUE
    /\ calls' = calls + 1
    /\ lastOp' = "start" /\ lastArg' = "none"
    /\ UNCHANGED << numAgents, agents, society, history, parameters, time,
                    dt, steps, pre, recorded >>
    /\ UNCHANGED << sensVars, realVars, uiVars >>

\* Simulator.pause
pause ==
    /\ steps + calls < MaxOps
    /\ running' = FALSE
    /\ calls' = calls + 1
    /\ lastOp' = "pause" /\ lastArg' = "none"
    /\ UNCHANGED << numAgents, agents, society, history, parameters, time,
                    dt, steps, pre, recorded >>
    /\ UNCHANGED << sensVars, realVars, uiVars >>

\* variant: the population is rebuilt whenever a size is given
Rebuilds_WheneverGiven(n, current) == n # NoSize

\* numAgents !== null && numAgents !== this.numAgents
Rebuilds(n, current) == n # NoSize /\ n # current

\* variant: the society is reset with the default arguments
SimulatorResetSociety_Defaults(soc) ==
    SocietyReset(soc, ResetDefaults.initQ, ResetDefaults.initGini,
                 ResetDefaults.extThreat)

\* this.society.reset(this.society.institutionalQuality,
\* this.society.gini, this.society.externalThreat)
SimulatorResetSociety(soc) ==
    SocietyReset(soc, soc.institutionalQuality, soc.gini,
                 soc.externalThreat)

\* Simulator.reset(n) with the given random draws; pre keeps the state
\* and the argument the call started from
ResetTo(n, layout, draws) ==
    /\ running' = FALSE
    /\ time' = 0
    /\ IF Rebuilds(n, numAgents)
       THEN /\ numAgents' = n
            /\ agents' = setupNeighborhoods(
                             initializeAgents(n, layout, draws))
            /\ society' = Society
       ELSE /\ numAgents' = numAgents
            /\ society' = SimulatorResetSociety(society)
            /\ agents' = [i \in DOMAIN agents |->
                            AgentReset(agents[i], draws[i])]
    /\ history' = EmptyHistory
    /\ recorded' = 0
    /\ pre' = [agents |-> agents, society |-> society, dt |-> dt,
               numAgents |-> numAgents, arg |-> n]
    /\ calls' = calls + 1
    /\ lastOp' = "reset" /\ lastArg' = "none"
    /\ UNCHANGED << parameters, dt, steps >>
    /\ UNCHANGED << sensVars, realVars, uiVars >>

\* Simulator.reset
reset ==
    /\ steps + calls < MaxOps
    /\ \E n \in PopulationSizes \cup {NoSize}, layout \in Layouts :
         \E draws \in [Ids(IF Rebuilds(n, numAgents) THEN n
                           ELSE numAgents) -> AgentInits] :
            ResetTo(n, layout, draws)

\* a step in which no contact is drawn
QuietStep ==
    /\ steps + calls < MaxOps
    /\ StepWith([i \in Ids(numAgents) |-> NoContact])

NextReset ==
    \/ QuietStep
    \/ AgentUpdateCall
    \/ setInitialCondition
    \/ start
    \/ pause
    \/ reset

SpecReset == Init /\ [][NextReset]_vars

\* ---------------------------------------------------------------------
\* the page: buttons, animation frames and the deferred analysis
\* ---------------------------------------------------------------------

\* bound: the number of events (clicks, frames, timers) of a session
MaxUiEvents == 4

stepsPerFrame == 5

\* the draws of a session: no contact is drawn during a frame, and the
\* agents of a population are all built from the same sample
FrameDraws == {NoContact}
UiDraws(n) == {[i \in Ids(n) |-> t] : t \in AgentInits}

\* the part of the simulator that Simulator.step changes
SimState ==
    [agents |-> agents, society |-> society, history |-> history,
     time |-> time, recorded |-> recorded, pre |-> pre]

\* Simulator.step applied to st, every agent drawing d
StepState(st, d) ==
    LET contacted ==
            simulateInterculturalContacts(
                st.agents, [i \in DOMAIN st.agents |-> d])
        macroDerivatives ==
            computeMacroDerivatives(contacted, st.society, parameters)
        updated == StepAgents(contacted, st.society, parameters, dt)
        soc == SocietyUpdate(st.society, updated, macroDerivatives, dt)
        sample == ((st.time + dt) \div dt) % 10 = 0
    IN [agents |-> updated, society |-> soc,
        history |-> IF sample
                    THEN addToHistory(st.history, updated, soc, st.time + dt)
                    ELSE st.history,
        time |-> st.time + dt,
        recorded |-> IF sample THEN st.recorded + 1 ELSE st.recorded,
        pre |-> [agents |-> contacted, society |-> st.society, dt |-> dt]]

RECURSIVE StepsState(_, _, _)
\* for (let i = 0; i < stepsPerFrame; i++) simulator.step()
StepsState(st, k, d) ==
    IF k = 0 THEN st ELSE StepsState(StepState(st, d), k - 1, d)

\* variant: a frame steps the simulator whatever the flag
FrameSteps_Always(isRunning) == TRUE

\* if (simulator.running)
FrameSteps(isRunning) == isRunning

\* animate(), isRunning being simulator.running when it is called and
\* sched the frames still requested
Animate(isRunning, sched, d) ==
    /\ IF FrameSteps(isRunning)
       THEN LET st == StepsState(SimState, stepsPerFrame, d)
            IN /\ agents' = st.agents /\ society' = st.society
               /\ history' = st.history /\ time' = st.time
               /\ recorded' = st.recorded /\ pre' = st.pre
               /\ steps' = steps + stepsPerFrame
       ELSE UNCHANGED << agents, society, history, time, recorded, pre,
                         steps >>
    /\ framesRequested' = framesRequested + 1
    /\ animationFrameId' = framesRequested + 1
    /\ scheduled' = sched \cup {framesRequested + 1}

\* startSimulation()
StartSimulation(d) ==
    /\ running' = TRUE
    /\ startBtnDisabled' = TRUE /\ pauseBtnDisabled' = FALSE
    /\ IF animationFrameId = 0
       THEN Animate(TRUE, scheduled, d)
       ELSE UNCHANGED << agents, society, history, time, recorded, pre,
                         steps, framesRequested, animationFrameId,
                         scheduled >>

\* the Start button is clicked
StartClick ==
    /\ uiEvents < MaxUiEvents
    /\ ~startBtnDisabled
    /\ \E d \in FrameDraws : StartSimulation(d)
    /\ resetSinceStart' = FALSE
    /\ uiEvents' = uiEvents + 1
    /\ calls' = calls + 1
    /\ lastOp' = "startSimulation" /\ lastArg' = "none"
    /\ UNCHANGED << numAgents, parameters, dt >>
    /\ UNCHANGED << sensitivityBtnDisabled, analysisPending, wasRunning,
                    sensitivityZones >>
    /\ UNCHANGED << sensVars, realVars >>

\* the Pause button is clicked: pauseSimulation()
PauseClick ==
    /\ uiEvents < MaxUiEvents
    /\ ~pauseBtnDisabled
    /\ running' = FALSE
    /\ startBtnDisabled' = FALSE /\ pauseBtnDisabled' = TRUE
    /\ uiEvents' = uiEvents + 1
    /\ calls' = calls + 1
    /\ lastOp' = "pauseSimulation" /\ lastArg' = "none"
    /\ UNCHANGED << numAgents, agents, society, history, parameters, time,
                    dt, steps, pre, recorded >>
    /\ UNCHANGED << animationFrameId, scheduled, framesRequested,
                    sensitivityBtnDisabled, analysisPending, wasRunning,
                    sensitivityZones, resetSinceStart >>
    /\ UNCHANGED << sensVars, realVars >>

\* positions of the initial-condition sliders when Reset is clicked
Sliders == [initQ |-> Society.institutionalQuality,
            initGini |-> Society.gini,
            externalThreat |-> Society.externalThreat]

\* variant: the handle is dropped without cancelling the frame
CancelFrame_HandleOnly(sched, id) == sched

\* cancelAnimationFrame(id)
CancelFrame(sched, id) == sched \ {id}

\* the Reset button is clicked: resetSimulation()
ResetClick ==
    /\ uiEvents < MaxUiEvents
    /\ scheduled' = IF animationFrameId # 0
                    THEN CancelFrame(scheduled, animationFrameId)
                    ELSE scheduled
    /\ animationFrameId' = 0
    /\ \E n \in PopulationSizes, layout \in Layouts :
       \E draws \in UiDraws(IF Rebuilds(n, numAgents) THEN n
                           ELSE numAgents) :
         /\ IF Rebuilds(n, numAgents)
            THEN /\ numAgents' = n
                 /\ agents' = setupNeighborhoods(
                                  initializeAgents(n, layout, draws))
                 /\ society' =
                      [Society EXCEPT
                         !.institutionalQuality = Sliders.initQ,
                         !.gini = Sliders.initGini,
                         !.externalThreat = Sliders.externalThreat]
            ELSE /\ numAgents' = numAgents
                 /\ agents' = [i \in DOMAIN agents |->
                                 AgentReset(agents[i], draws[i])]
                 /\ society' =
                      [SimulatorResetSociety(society) EXCEPT
                         !.institutionalQuality = Sliders.initQ,
                         !.gini = Sliders.initGini,
                         !.externalThreat = Sliders.externalThreat]
         /\ pre' = [agents |-> agents, society |-> society, dt |-> dt,
                    numAgents |-> numAgents, arg |-> n]
    /\ running' = FALSE /\ time' = 0
    /\ history' = EmptyHistory /\ recorded' = 0
    /\ startBtnDisabled' = FALSE /\ pauseBtnDisabled' = TRUE
    /\ resetSinceStart' = TRUE
    /\ uiEvents' = uiEvents + 1
    /\ calls' = calls + 4
    /\ lastOp' = "resetSimulation" /\ lastArg' = "none"
    /\ UNCHANGED << parameters, dt, steps >>
    /\ UNCHANGED << framesRequested, sensitivityBtnDisabled,
                    analysisPending, wasRunning, sensitivityZones >>
    /\ UNCHANGED << sensVars, realVars >>

\* the analysis button is clicked: runSensitivityAnalysis() up to its
\* setTimeout
SensitivityClick ==
    /\ uiEvents < MaxUiEvents
    /\ ~sensitivityBtnDisabled
    /\ sensitivityBtnDisabled' = TRUE
    /\ wasRunning' = running
    /\ IF running
       THEN /\ running' = FALSE
            /\ startBtnDisabled' = FALSE /\ pauseBtnDisabled' = TRUE
            /\ calls' = calls + 1
       ELSE UNCHANGED << running, startBtnDisabled, pauseBtnDisabled,
                         calls >>
    /\ analysisPending' = TRUE
    /\ uiEvents' = uiEvents + 1
    /\ lastOp' = "runSensitivityAnalysis" /\ lastArg' = "none"
    /\ UNCHANGED << numAgents, agents, society, history, parameters, time,
                    dt, steps, pre, recorded >>
    /\ UNCHANGED << animationFrameId, scheduled, framesRequested,
                    sensitivityZones, resetSinceStart >>
    /\ UNCHANGED << sensVars, realVars >>

\* the deferred callback runs: the analysis, then the finally block
AnalysisTimer ==
    /\ uiEvents < MaxUiEvents
    /\ analysisPending
    /\ sensitivityZones' \in {"zones", sensitivityZones}
    /\ sensitivityBtnDisabled' = FALSE
    /\ IF wasRunning
       THEN /\ \E d \in FrameDraws : StartSimulation(d)
            /\ calls' = calls + 1
       ELSE UNCHANGED << running, startBtnDisabled, pauseBtnDisabled,
                         agents, society, history, time, recorded, pre,
                         steps, framesRequested, animationFrameId,
                         scheduled, calls >>
    /\ analysisPending' = FALSE
    /\ uiEvents' = uiEvents + 1
    /\ lastOp' = "analysisTimer" /\ lastArg' = "none"
    /\ UNCHANGED << numAgents, parameters, dt >>
    /\ UNCHANGED << wasRunning, resetSinceStart >>
    /\ UNCHANGED << sensVars, realVars >>

\* the browser runs a requested frame: animate()
FrameCallback ==
    /\ uiEvents < MaxUiEvents
    /\ \E id \in scheduled, d \in FrameDraws :
         Animate(running, scheduled \ {id}, d)
    /\ uiEvents' = uiEvents + 1
    /\ lastOp' = "animate" /\ lastArg' = "none"
    /\ UNCHANGED << numAgents, parameters, dt, running, calls >>
    /\ UNCHANGED << startBtnDisabled, pauseBtnDisabled,
                    sensitivityBtnDisabled, analysisPending, wasRunning,
                    sensitivityZones, resetSinceStart >>
    /\ UNCHANGED << sensVars, realVars >>

NextUi ==
    \/ StartClick
    \/ PauseClick
    \/ ResetClick
    \/ SensitivityClick
    \/ AnalysisTimer
    \/ FrameCallback

\* the page once init() has run
InitUi ==
    /\ SensIdle
    /\ RealIdle
    /\ UiIdle
    /\ \E layout \in Layouts, draws \in UiDraws(NumAgents) :
         Simulator(NumAgents, layout, draws)

SpecUi == InitUi /\ [][NextUi]_vars

\* ---------------------------------------------------------------------
\* neighbourhoods of larger populations, kept through steps and resets
\* ---------------------------------------------------------------------

\* bound: the largest population built
MaxPopulation == 7

NeighbourhoodLayouts == {"cluster", "grid"}

\* new Simulator(n) for a population of 2 .. MaxPopulation agents
InitNeighbourhoods ==
    /\ SensIdle
    /\ RealIdle
    /\ UiIdle
    /\ \E n \in 2 .. MaxPopulation, layout \in NeighbourhoodLayouts :
       \E draws \in UiDraws(n) : Simulator(n, layout, draws)

\* Simulator.reset() with the size unchanged
ResetInPlace ==
    /\ steps + calls < MaxOps
    /\ \E n \in {NoSize, numAgents}, draws \in UiDraws(numAgents) :
         ResetTo(n, "cluster", draws)

NextNeighbourhoods ==
    \/ QuietStep
    \/ ResetInPlace

SpecNeighbourhoods == InitNeighbourhoods /\ [][NextNeighbourhoods]_vars

\* ---------------------------------------------------------------------
\* simulateToSteadyState: averaging over realizations
\* ---------------------------------------------------------------------
\* default value of the numRealizations parameter
defaultNumRealizations == 10

\* bound: the largest number of realizations asked for explicitly
MaxAskedRealizations == 2

\* numRealizations arguments: omitted, or 1 .. MaxAskedRealizations
RealizationCounts == {Unset} \cup (1 .. MaxAskedRealizations)

\* final psi values a realization can return, in hundredths
RealizationOutcomes == {0 - 40, 30, 95}

\* variant: the loop runs while realization <= numRealizations
MoreRealizations_Inclusive(done, n) == done <= n

\* realization < numRealizations
MoreRealizations(done, n) == done < n

\* avgPsi: the sum of the values divided by numRealizations
AveragePsi(values, n) == RoundDiv(SumList(values), n)

RECURSIVE SumSquares(_, _)
SumSquares(values, avg) ==
    IF values = << >> THEN 0
    ELSE (Head(values) - avg) * (Head(values) - avg)
           + SumSquares(Tail(values), avg)

\* variance, in units of 1/10000
VariancePsi(values, n) == SumSquares(values, AveragePsi(values, n)) \div n

\* stdDev = Math.sqrt(variance), in hundredths, rounded down
StdDevPsi(values, n) == Sqrt(VariancePsi(values, n))

\* simulateToSteadyState is called
SteadyStateCall ==
    /\ sspc = "idle"
    /\ \E k \in RealizationCounts :
         /\ ssArgs' = [numRealizations |-> k]
         /\ numRealizations' =
              IF k = Unset THEN defaultNumRealizations ELSE k
    /\ psiValues' = << >>
    /\ returned' = [k \in {} |-> 0]
    /\ console' = << >>
    /\ sspc' = "realizations"
    /\ UNCHANGED << sensVars, simVars, uiVars >>
    /\ UNCHANGED realizationVars

\* one turn of the loop: a realization runs and its psi is pushed
SteadyStateRealization ==
    /\ sspc = "realizations"
    /\ MoreRealizations(Len(psiValues), numRealizations)
    /\ \E psi \in RealizationOutcomes : psiValues' = Append(psiValues, psi)
    /\ UNCHANGED << sspc, ssArgs, numRealizations, returned, console >>
    /\ UNCHANGED << sensVars, simVars, uiVars >>
    /\ UNCHANGED realizationVars

\* the statements after the loop: mean, deviation, log line, return
SteadyStateReturn ==
    /\ sspc = "realizations"
    /\ ~MoreRealizations(Len(psiValues), numRealizations)
    /\ LET avgPsi == AveragePsi(psiValues, numRealizations)
           stdDev == StdDevPsi(psiValues, numRealizations)
       IN /\ console' =
               IF stdDev > 5
               THEN << [stdDev |-> stdDev, avgPsi |-> avgPsi,
                        psiValues |-> psiValues] >>
               ELSE << >>
          /\ returned' = [avgPsi |-> avgPsi]
    /\ sspc' = "returned"
    /\ UNCHANGED << ssArgs, numRealizations, psiValues >>
    /\ UNCHANGED << sensVars, simVars, uiVars >>
    /\ UNCHANGED realizationVars

\* the caller has taken the value
SteadyStateDone ==
    /\ sspc = "returned"
    /\ sspc' = "idle"
    /\ ssArgs' = [numRealizations |-> Unset]
    /\ numRealizations' = 0
    /\ psiValues' = << >>
    /\ returned' = [k \in {} |-> 0]
    /\ console' = << >>
    /\ UNCHANGED << sensVars, simVars, uiVars >>
    /\ UNCHANGED realizationVars

NextSteadyState ==
    \/ SteadyStateCall
    \/ SteadyStateRealization
    \/ SteadyStateReturn
    \/ SteadyStateDone

\* the averaging runs beside an idle sensitivity engine and simulator
InitSteadyState ==
    /\ SensIdle
    /\ RealIdle
    /\ UiIdle
    /\ Simulator(NumAgents, "cluster",
                 [i \in Ids(NumAgents) |->
                     CHOOSE t \in AgentInits : t.wealth > 0])

SpecSteadyState == InitSteadyState /\ [][NextSteadyState]_vars

\* ---------------------------------------------------------------------
\* singleRealization: one private run with early stop
\* ---------------------------------------------------------------------
realizationRadius == 20
realizationK == 5

\* bound: the largest floor(tMax / dt) of a call
MaxRealizationSteps == 3

\* time steps in hundredths: 0.02 as the sweep passes it, and 3
RealizationDts == {2, 300}

\* arguments of a call: tMax is not a multiple of dt
RealizationArgs ==
    { [params |-> DefaultParameters, tMax |-> n * d + 1, dt |-> d] :
        n \in {0, MaxRealizationSteps}, d \in RealizationDts }

\* positions drawn in [0, 1]: all agents close together, or far apart
RealizationX(layout, i) == IF layout = "cluster" THEN 3 * i ELSE 30 * i
RealizationY(layout, i) == IF layout = "cluster" THEN 4 * i ELSE 0

RECURSIVE RealizationNear(_, _, _)
\* the other agents closer than 0.2, in storage order
RealizationNear(ags, i, ids) ==
    IF ids = << >> THEN << >>
    ELSE IF Head(ids) # i
            /\ Distance2(ags, i, Head(ids))
                 < realizationRadius * realizationRadius
         THEN << Head(ids) >> \o RealizationNear(ags, i, Tail(ids))
         ELSE RealizationNear(ags, i, Tail(ids))

\* the agents and neighbourhoods singleRealization builds
RealizationAgents(n, layout, draws) ==
    LET ags == [i \in Ids(n) |->
                  Agent(i, RealizationX(layout, i), RealizationY(layout, i),
                        draws[i])]
        all == SeqOfIds(n)
    IN [i \in Ids(n) |->
          LET near == RealizationNear(ags, i, all)
              sorted == SortByDistance(ags, i, all, << >>)
          IN [ags[i] EXCEPT !.neighbors =
                IF Len(near) = 0
                THEN SubSeq(sorted, 1, Min2(realizationK, Len(sorted)))
                ELSE near]]

\* numSteps = Math.floor(tMax / dt)
numSteps == rArgs.tMax \div rArgs.dt

\* variant: the loop never stops early
StopCondition_Never(ags, soc) == FALSE

\* society.institutionalQuality <= 0.05 || psi >= 0.95
StopCondition(ags, soc) ==
    \/ soc.institutionalQuality <= 5
    \/ getOrderParameter(ags, soc) >= 95

\* singleRealization is called: agents, neighbourhoods and society
singleRealization ==
    /\ rpc = "idle"
    /\ \E a \in RealizationArgs : rArgs' = a
    /\ \E layout \in Layouts, draws \in [Ids(NumAgents) -> AgentInits] :
         rAgents' = RealizationAgents(NumAgents, layout, draws)
    /\ rSociety' = Society
    /\ rStep' = 0 /\ rTime' = 0 /\ rExecuted' = 0 /\ rResult' = Unset
    /\ rpc' = "loop"
    /\ UNCHANGED << sensVars, simVars, steadyStateVars, uiVars >>

\* one turn of the for loop; each intermediate result is bound as a
\* value before it is used
RealizationStep ==
    /\ rpc = "loop"
    /\ rStep < numSteps
    /\ \E draws \in [DOMAIN rAgents -> ContactDraws] :
       \E contacted \in {simulateInterculturalContacts(rAgents, draws)} :
       \E macroDerivatives \in
            {computeMacroDerivatives(contacted, rSociety, rArgs.params)} :
       \E updated \in
            {StepAgents(contacted, rSociety, rArgs.params, rArgs.dt)} :
       \E soc \in
            {SocietyUpdate(rSociety, updated, macroDerivatives, rArgs.dt)} :
       \E stop \in {StopCondition(updated, soc)} :
         /\ rAgents' = updated
         /\ rSociety' = soc
         /\ rpc' = IF stop THEN "break" ELSE "loop"
         /\ rStep' = IF stop THEN rStep ELSE rStep + 1
    /\ rTime' = rTime + rArgs.dt
    /\ rExecuted' = rExecuted + 1
    /\ UNCHANGED << rArgs, rResult >>
    /\ UNCHANGED << sensVars, simVars, steadyStateVars, uiVars >>

\* the loop is left: return society.getOrderParameter()
RealizationReturn ==
    /\ \/ rpc = "break"
       \/ rpc = "loop" /\ ~(rStep < numSteps)
    /\ rResult' = getOrderParameter(rAgents, rSociety)
    /\ rpc' = "returned"
    /\ UNCHANGED << rArgs, rAgents, rSociety, rStep, rTime, rExecuted >>
    /\ UNCHANGED << sensVars, simVars, steadyStateVars, uiVars >>

\* the caller has taken the value
RealizationDone ==
    /\ rpc = "returned"
    /\ rpc' = "idle" /\ rArgs' = [k \in {} |-> 0]
    /\ rAgents' = [k \in {} |-> 0] /\ rSociety' = [k \in {} |-> 0]
    /\ rStep' = 0 /\ rTime' = 0 /\ rExecuted' = 0 /\ rResult' = Unset
    /\ UNCHANGED << sensVars, simVars, steadyStateVars, uiVars >>

NextRealization ==
    \/ singleRealization
    \/ RealizationStep
    \/ RealizationReturn
    \/ RealizationDone

SpecRealization == InitSteadyState /\ [][NextRealization]_vars

\* the sensitivity engine runs beside a simulator that is not stepped
InitSens ==
    /\ SensIdle
    /\ RealIdle
    /\ UiIdle
    /\ Simulator(NumAgents, "cluster",
                 [i \in Ids(NumAgents) |->
                     CHOOSE t \in AgentInits : t.wealth > 0])

NextSens ==
    \/ findParameterForPsi
    \/ DirectReturn
    \/ analyzeSensitivity
    \/ EvaluateBounds
    \/ BisectionIteration
    \/ FinalRefine
    \/ SweepDemocratic
    \/ SweepNext

SpecSens == InitSens /\ [][NextSens]_vars

\* the search runs to completion once called (synchronous code)
FairSpecSens ==
    /\ SpecSens
    /\ WF_vars(EvaluateBounds)
    /\ WF_vars(BisectionIteration)
    /\ WF_vars(FinalRefine)

\* ---------------------------------------------------------------------
\* Properties of the sensitivity engine
\* ---------------------------------------------------------------------
TargetOutOfRange ==
    \/ callArgs.targetPsi < Min2(psiMin, psiMax)
    \/ callArgs.targetPsi > Max2(psiMin, psiMax)

FinalMid == (low + high) \div 2

\* the parameters the documentation declares virtuous
DeclaredVirtuous == {"beta1", "beta3", "mu1"}
DeclaredHarmful == {"beta2", "beta4", "mu2", "mu3"}

\* C1: every search analyzeSensitivity runs pairs target and extremum by
\* the declared classification: virtuous parameters get (0, max) for the
\* autocratic and (0.3, min) for the democratic threshold, harmful
\* parameters get (0, min) and (0.3, max).
C1_PairingByClassification ==
    (entry = "sweep" /\ pc # "idle") =>
        /\ callArgs.paramName \in DeclaredVirtuous \cup DeclaredHarmful
        /\ callArgs.paramName = parametersToAnalyze[sweepI].key
        /\ sweepPhase \in {"autocratic", "democratic"}
        /\ sweepPhase = "autocratic" =>
             /\ callArgs.targetPsi = 0
             /\ callArgs.extremum =
                  IF callArgs.paramName \in DeclaredVirtuous THEN "max"
                                                              ELSE "min"
        /\ sweepPhase = "democratic" =>
             /\ callArgs.targetPsi = (3 * PUnit) \div 10
             /\ callArgs.extremum =
                  IF callArgs.paramName \in DeclaredVirtuous THEN "min"
                                                              ELSE "max"

C1_Witness ==
    /\ entry = "sweep" /\ pc = "done"
    /\ callArgs.paramName = "mu3" /\ sweepPhase = "democratic"
    /\ callArgs.extremum = "max"
    /\ DOMAIN results = {"beta1", "beta2", "beta3", "beta4", "mu1", "mu2"}

\* C2: when the target is strictly outside the psi measured at the two
\* bounds, findParameterForPsi returns after the two boundary evaluations,
\* without any bisection iteration, and the value is pMin or pMax chosen
\* from extremum and isIncreasing only.
C2_OutOfRangeEndpoint ==
    (pc = "done" /\ TargetOutOfRange) =>
        /\ iteration = 0
        /\ evals = 2
        /\ cands = {}
        /\ result =
             IF callArgs.extremum = "min"
             THEN (IF psiMax > psiMin THEN callArgs.pMin ELSE callArgs.pMax)
             ELSE (IF psiMax > psiMin THEN callArgs.pMax ELSE callArgs.pMin)

\* the endpoint returned is the one whose psi is farther from the target
C2_Witness ==
    /\ pc = "done" /\ TargetOutOfRange
    /\ result = callArgs.pMax
    /\ callArgs.pMin # callArgs.pMax
    /\ Abs(psiMax - callArgs.targetPsi) > Abs(psiMin - callArgs.targetPsi)

\* a response that is monotone in the direction declared for parameter k
MonotoneAsDeclared(r, k) ==
    IF k \in DeclaredVirtuous
    THEN \/ r.kind = "linear" /\ r.slope5 > 0
         \/ r.kind = "step" /\ r.lo < r.hi
    ELSE \/ r.kind = "linear" /\ r.slope5 < 0
         \/ r.kind = "step" /\ r.lo > r.hi

\* C3: the zone returned by analyzeSensitivity is never inverted: with a
\* response monotone in the declared direction, a virtuous parameter has
\* autocratic <= democratic and a harmful one democratic <= autocratic.
C3_ZoneNeverInverted ==
    \A k \in DOMAIN results :
        MonotoneAsDeclared(response, k) =>
            IF k \in DeclaredVirtuous
            THEN results[k].autocratic <= results[k].democratic
            ELSE results[k].democratic <= results[k].autocratic

\* C4: when the target is reachable and no bisection midpoint satisfied
\* the condition, the value returned is the midpoint of the final bracket.
C4_NoCandidateReturnsFinalMid ==
    (pc = "done" /\ ~TargetOutOfRange /\ cands = {}) => result = FinalMid

\* the final midpoint counts as qualifying when its psi passes the test
\* applied to it (strictly within tolerance); it is admitted as a returned
\* value already when it passes the test of the loop
FinalQualifies ==
    Abs(psiFinal - callArgs.targetPsi) < callArgs.tolerance
FinalSatisfies ==
    satisfiesCondition(psiFinal, callArgs.targetPsi, callArgs.tolerance)

\* C5: when a bisection midpoint qualified, the value returned is the
\* most extreme qualifying evaluated point in the requested direction,
\* never a point that does not qualify.
C5_MostExtremeCandidate ==
    (pc = "done" /\ cands # {}) =>
        /\ result \in cands \cup (IF FinalSatisfies THEN {FinalMid} ELSE {})
        /\ \A q \in cands \cup (IF FinalQualifies THEN {FinalMid} ELSE {}) :
             IF callArgs.extremum = "min" THEN result <= q ELSE result >= q

\* the call of C6: psi(p) = p searched on [0, 2] with tolerance 0.02
LinearCall ==
    /\ response = Linear(0, 5)
    /\ callArgs.pMin = 0 /\ callArgs.pMax = 2 * PUnit
    /\ callArgs.tolerance = (2 * PUnit) \div 100

\* C6: with psi(p) = p on [0, 2] and tolerance 0.02, the search for
\* (target 0, max) returns a value within 0.02 of 0 and the search for
\* (target 0.3, min) a value within 0.02 of 0.3.
C6_LinearRootSearch ==
    (pc = "done" /\ LinearCall) =>
        /\ (callArgs.targetPsi = 0 /\ callArgs.extremum = "max") =>
             Abs(result - 0) <= callArgs.tolerance
        /\ (callArgs.targetPsi = (3 * PUnit) \div 10
              /\ callArgs.extremum = "min") =>
             Abs(result - (3 * PUnit) \div 10) <= callArgs.tolerance

C6_Witness ==
    /\ pc = "done" /\ LinearCall
    /\ callArgs.targetPsi = (3 * PUnit) \div 10 /\ callArgs.extremum = "min"
    /\ iteration = 14
    /\ result # callArgs.pMin /\ result # callArgs.pMax
    /\ pAutocratic # Unset /\ pAutocratic > 0

\* C7: the bisection loop terminates: at most 30 iterations, an iteration
\* runs only while the bracket is wider than tolerance * 0.01, every
\* iteration halves the bracket, a call makes at most 2 + 30 + 1
\* evaluations, and every call started reaches its return.
C7_LoopTerminates ==
    /\ [](iteration <= 30 /\ evals <= 2 + 30 + 1)
    /\ [][iteration' = iteration + 1 =>
            /\ iteration < 30
            /\ (high - low) * 100 > callArgs.tolerance
            /\ 2 * (high' - low') = high - low
            /\ evals' = evals + 1]_vars
    /\ [][(pc = "loop" /\ (high - low) * 100 <= callArgs.tolerance) =>
            (pc' = "done" /\ iteration' = iteration)]_vars
    /\ ((pc = "bounds") ~> (pc = "done"))

C7_Witness ==
    /\ pc = "done" /\ iteration = 14 /\ evals = 17
    /\ (high - low) * 100 <= callArgs.tolerance

\* an agent's evolved fields are within their declared domains
InDomain(a) ==
    /\ a.democraticAdherence >= 0 - Scale /\ a.democraticAdherence <= Scale
    /\ a.toleranceCultural >= 0 - Scale /\ a.toleranceCultural <= Scale
    /\ a.security >= 0 /\ a.security <= Scale
    /\ a.permeability >= 0 /\ a.permeability <= Scale
    /\ a.civicEnergy >= 0 /\ a.civicEnergy <= Scale
    /\ a.wealth >= 0

\* C8: agents constructed within their domains stay there after any
\* number of Agent.update calls, whatever the derivatives and dt:
\* democraticAdherence and toleranceCultural in [-1, 1], security,
\* permeability and civicEnergy in [0, 1], wealth >= 0.
C8_ClampingInvariant ==
    \A i \in Ids(numAgents) : InDomain(agents[i])

\* a second consecutive call whose raw sums left the domains on both
\* sides: adherence stopped at 1 and permeability at 0
C8_Witness ==
    /\ lastOp = "Agent.update" /\ calls = 2
    /\ \E i \in Ids(numAgents) :
         /\ pre.agents[i].democraticAdherence
              + Increment(Big, Abs(pre.dt)) > Scale
         /\ agents[i].democraticAdherence = Scale
         /\ pre.agents[i].permeability > 0
         /\ agents[i].permeability = 0

RECURSIVE PairwiseGaps(_, _)
\* sum of |w_i - w_j| over the ordered pairs of the given ids
PairwiseGaps(ags, pairs) ==
    IF pairs = {} THEN 0
    ELSE LET pr == CHOOSE q \in pairs : TRUE
         IN Abs(ags[pr[1]].wealth - ags[pr[2]].wealth)
              + PairwiseGaps(ags, pairs \ {pr})

\* the Gini coefficient as the relative mean absolute difference
MeanDifferenceGini(ags) ==
    LET n == Size(ags)
        totalWealth == SumSeq(ags, "wealth", SeqOfIds(n))
    IN IF totalWealth = 0 THEN 0
       ELSE RoundDiv((PairwiseGaps(ags, (DOMAIN ags) \X (DOMAIN ags)) \div 2)
                        * Scale, n * totalWealth)

\* C9: after every Society.update call (direct or from step)
\* institutionalQuality, polarization and perceivedThreat are in [0, 1],
\* gini is the Gini coefficient of the current wealths and precarity is
\* 1 - mean(security) of the current agents, whatever they were before.
C9_SocietyUpdateRecomputes ==
    lastOp \in {"Society.update", "step"} =>
      /\ society.institutionalQuality \in 0 .. Scale
      /\ society.polarization \in 0 .. Scale
      /\ society.perceivedThreat \in 0 .. Scale
      /\ society.gini = MeanDifferenceGini(agents)
      /\ society.precarity
           = Scale - RoundDiv(SumSeq(agents, "security",
                                     SeqOfIds(numAgents)), numAgents)

\* the caller had set gini to 1 and an agent's security had been moved:
\* both are overwritten from the population
C9_Witness ==
    /\ lastOp \in {"Society.update", "step"}
    /\ pre.society.gini = Scale
    /\ society.gini < Scale
    /\ society.precarity # pre.society.precarity

\* a clamped macro scalar after its Euler increment
MacroStep(value, d, step) == Max2(0, Min2(Scale, value + Increment(d, step)))

\* C10: after Simulator.step every agent is its pre-step self updated
\* with derivatives computed from the pre-step agents and society, the
\* three macro scalars move by derivatives computed from that same
\* pre-step state, and gini and precarity are those of the updated agents.
C10_StepSynchronous ==
    lastOp = "step" =>
      /\ \A i \in Ids(numAgents) :
           agents[i] =
             AgentUpdate(pre.agents[i],
                         computeAgentDerivatives(pre.agents, i, pre.society,
                                                 parameters),
                         pre.dt)
      /\ LET d == computeMacroDerivatives(pre.agents, pre.society,
                                          parameters)
         IN /\ society.institutionalQuality
                 = MacroStep(pre.society.institutionalQuality, d.dQ, pre.dt)
            /\ society.polarization
                 = MacroStep(pre.society.polarization, d.dPhi, pre.dt)
            /\ society.perceivedThreat
                 = MacroStep(pre.society.perceivedThreat, d.dM, pre.dt)
      /\ society.gini = calculateGini(agents)
      /\ society.precarity = Scale - getAverage(agents, "security")

\* a step in which updating the agents one after the other would have
\* given other values, and in which the mean security moved
C10_Witness ==
    /\ lastOp = "step"
    /\ agents # UpdateInTurn(pre.agents, SeqOfIds(numAgents), pre.society,
                             parameters, pre.dt)
    /\ getAverage(agents, "security") # getAverage(pre.agents, "security")
    /\ computeMacroDerivatives(agents, pre.society, parameters)
         # computeMacroDerivatives(pre.agents, pre.society, parameters)

\* the length of each of the six history series
HistoryLengths == { Len(history[key]) : key \in DOMAIN history }

\* C11: the six history series always have one common length, at most
\* 1000, and they hold the most recent samples in recording order: the
\* sample added to a full history evicts exactly the oldest one.
C11_HistoryBounded ==
    /\ DOMAIN history = {"time", "orderParameter", "avgAlpha",
                         "institutionalQuality", "polarization",
                         "perceivedThreat"}
    /\ HistoryLengths = { Min2(recorded, 1000) }
    /\ \A k \in 1 .. Len(history.time) :
         history.time[k] = recorded - Len(history.time) + k

\* a sample was added to a full history
C11_Witness ==
    /\ lastOp = "addToHistory"
    /\ recorded > 1000
    /\ Len(history.time) = 1000
    /\ history.time[1] = recorded - 999

\* C12: since construction a history sample is appended on exactly every
\* 10th call of Simulator.step and on no other, whatever time steps were
\* set between the calls.
C12_FixedStride ==
    /\ recorded = steps \div 10
    /\ Len(history.time) = steps \div 10

\* keys of the first n analysed parameters
KeysUpTo(n) == { parametersToAnalyze[k].key : k \in 1 .. n }

\* the callback was invoked for the parameters 1 .. Len(progress), once
\* each and in order, with (parameterName, k, 7)
ProgressInOrder ==
    \A k \in 1 .. Len(progress) :
       progress[k] = << parametersToAnalyze[k].key, k, 7 >>

RangeMax(key) ==
    IF key \in {"beta1", "beta2", "beta3", "beta4"} THEN 2 * PUnit ELSE PUnit

\* C14: analyzeSensitivity returns one record for each of the 7 tunable
\* parameters; in every record min <= max and {min, max} are autocratic
\* and democratic, virtuous is the declared classification, and both
\* thresholds lie inside the parameter's search range.
C14_ResultRecords ==
    /\ DOMAIN results \subseteq KeysUpTo(7)
    /\ (entry = "none" /\ progress # << >>) => DOMAIN results = KeysUpTo(7)
    /\ \A key \in DOMAIN results :
         LET r == results[key] IN
           /\ DOMAIN r = {"autocratic", "democratic", "min", "max",
                          "virtuous"}
           /\ r.min <= r.max
           /\ { r.min, r.max } = { r.autocratic, r.democratic }
           /\ r.virtuous = (key \in DeclaredVirtuous)
           /\ r.autocratic >= 0 /\ r.autocratic <= RangeMax(key)
           /\ r.democratic >= 0 /\ r.democratic <= RangeMax(key)

\* a returned result with a record whose autocratic threshold is above
\* the democratic one and a record where it is below
C14_Witness ==
    /\ entry = "none" /\ pc = "idle"
    /\ DOMAIN results = KeysUpTo(7)
    /\ \E key \in DOMAIN results :
         results[key].autocratic > results[key].democratic
    /\ \E key \in DOMAIN results :
         results[key].autocratic < results[key].democratic

\* C15: no step of a sweep or of a findParameterForPsi call changes a
\* field of the baseParams object it was given, nor the live simulator's
\* agents, society, time or running flag; the values searched are written
\* to a private copy that differs from baseParams in the searched
\* parameter only.
C15_SweepLeavesLiveState ==
    /\ [][/\ parameters' = parameters
          /\ agents' = agents
          /\ society' = society
          /\ time' = time
          /\ running' = running]_vars
    /\ [](paramsCopy # NoParams =>
            /\ DOMAIN paramsCopy = DOMAIN parameters
            /\ \A k \in DOMAIN parameters \ {callArgs.paramName} :
                 paramsCopy[k] = parameters[k] * ParameterUnit)

\* a search of the sweep has run its loop: the copy holds a searched
\* value of the parameter and the live value is the one it started from
C15_Witness ==
    /\ entry = "sweep" /\ pc = "done" /\ iteration > 0
    /\ paramsCopy # NoParams
    /\ paramsCopy[callArgs.paramName]
         # parameters[callArgs.paramName] * ParameterUnit
    /\ parameters = DefaultParameters

\* C16: simulateToSteadyState runs exactly numRealizations realizations,
\* 10 when the argument is omitted, and returns the arithmetic mean of
\* their final psi values: the value returned times K is the sum of the
\* K values, up to the rounding of the division.
C16_MeanOfRealizations ==
    /\ Len(psiValues) <= numRealizations
    /\ sspc # "idle" =>
         numRealizations = IF ssArgs.numRealizations = Unset
                           THEN 10 ELSE ssArgs.numRealizations
    /\ sspc = "returned" =>
         /\ Len(psiValues) = numRealizations
         /\ 2 * Abs(returned.avgPsi * numRealizations - SumList(psiValues))
              <= numRealizations

\* a call without the argument has returned the mean of ten values that
\* are not all equal
C16_Witness ==
    /\ sspc = "returned"
    /\ ssArgs.numRealizations = Unset
    /\ Len(psiValues) = 10
    /\ \E i, j \in 1 .. 10 : psiValues[i] # psiValues[j]
    /\ returned.avgPsi > 0

\* C17: the standard deviation of the realizations' final psi values is
\* part of what the caller of simulateToSteadyState receives.
C17_StdDevSurfaced ==
    sspc = "returned" =>
      /\ "stdDev" \in DOMAIN returned
      /\ returned.stdDev = StdDevPsi(psiValues, numRealizations)

\* the direction measured at the bounds disagrees with the declared
\* classification of the parameter searched
DirectionMismatch ==
    IF callArgs.paramName \in DeclaredVirtuous THEN ~isIncreasing
                                                ELSE isIncreasing

\* C18: once the bounds of a search of the sweep are measured, a
\* direction that disagrees with the declared classification (virtuous
\* but not increasing, harmful but increasing) has been flagged by a
\* warning.
C18_MismatchFlagged ==
    (entry = "sweep" /\ pc \in {"loop", "done"} /\ DirectionMismatch) =>
        "directionMismatch" \in warned

\* the early-stop test on the realization's current state
StopReached ==
    \/ rSociety.institutionalQuality <= 5
    \/ getOrderParameter(rAgents, rSociety) >= 95

\* C19: a realization terminates: it executes at most floor(tMax / dt)
\* integration steps, every turn of its loop is one of them, it executes
\* no step after a step at whose end institutionalQuality <= 0.05 or
\* psi >= 0.95, it leaves the loop only on that test or with its steps
\* used up, and it returns the order parameter of the state it stopped at.
C19_RealizationTerminates ==
    /\ [](rpc # "idle" => rExecuted * rArgs.dt <= rArgs.tMax)
    /\ [][(rpc = "loop" /\ rpc' = "loop") =>
            rExecuted' = rExecuted + 1]_vars
    /\ [][rExecuted' = rExecuted + 1 =>
            (rExecuted = 0 \/ ~StopReached)]_vars
    /\ [][(rpc = "loop" /\ rpc' # "loop") =>
            \/ rpc' = "break" /\ StopReached'
            \/ rpc' = "returned"
                 /\ (rExecuted + 1) * rArgs.dt > rArgs.tMax]_vars
    /\ [](rpc = "returned" =>
            rResult = getOrderParameter(rAgents, rSociety))

\* a call returned after an early stop, with steps to spare
C19_Witness ==
    /\ rpc = "returned"
    /\ rExecuted >= 1
    /\ (rExecuted + 1) * rArgs.dt <= rArgs.tMax
    /\ StopReached
    /\ rResult = getOrderParameter(rAgents, rSociety)

\* C20: setParameter with a name that is not a model parameter leaves
\* the parameter set as it was, and setInitialCondition with a variable
\* other than institutionalQuality, gini and externalThreat leaves the
\* society as it was.
C20_UnknownNameNoOp ==
    /\ [][(lastOp' = "setParameter" /\ calls' = calls + 1
             /\ lastArg' \notin DOMAIN DefaultParameters)
            => parameters' = parameters]_vars
    /\ [][(lastOp' = "setInitialCondition" /\ calls' = calls + 1
             /\ lastArg' \notin
                  {"institutionalQuality", "gini", "externalThreat"})
            => society' = society]_vars

\* the agents of ags are those of old, kept in place: same ids, positions
\* and neighbour sets
SameAgentObjects(ags, old) ==
    /\ DOMAIN ags = DOMAIN old
    /\ \A i \in DOMAIN ags :
         /\ ags[i].id = old[i].id
         /\ ags[i].x = old[i].x /\ ags[i].y = old[i].y
         /\ ags[i].neighbors = old[i].neighbors

\* every agent holds the values of a reset: fresh draws and no contacts
AgentsReset(ags) ==
    \A i \in DOMAIN ags :
      /\ ags[i].positiveContacts = 0 /\ ags[i].negativeContacts = 0
      /\ \E t \in AgentInits :
           \A f \in DOMAIN t : ags[i][f] = t[f]

\* C21: after Simulator.reset(n) the simulator is not running, time is 0
\* and the history is empty; the population, its neighbourhoods and the
\* society are new if and only if n is given and differs from the
\* population size, and otherwise the same agents are reset in place.
C21_ResetContract ==
    lastOp = "reset" =>
      /\ running = FALSE /\ time = 0 /\ history = EmptyHistory
      /\ IF pre.arg # NoSize /\ pre.arg # pre.numAgents
         THEN /\ numAgents = pre.arg
              /\ DOMAIN agents = Ids(pre.arg)
              /\ \E layout \in Layouts :
                 \E draws \in [Ids(pre.arg) -> AgentInits] :
                   agents = setupNeighborhoods(
                                initializeAgents(pre.arg, layout, draws))
              /\ society = Society
         ELSE /\ numAgents = pre.numAgents
              /\ SameAgentObjects(agents, pre.agents)
              /\ AgentsReset(agents)

\* a reset that rebuilt a population that had stepped
C21_Witness ==
    /\ lastOp = "reset"
    /\ pre.arg # NoSize /\ pre.arg # pre.numAgents
    /\ steps >= 1
    /\ numAgents = pre.arg

\* C30: a reset that keeps the population size leaves
\* institutionalQuality, gini and externalThreat at the values they held
\* just before it and returns polarization and perceivedThreat to 0.2
\* and diversity to 0.5; a reset that changes the size returns all of
\* them to the construction defaults.
C30_ResetKeepsInitialConditions ==
    lastOp = "reset" =>
      IF pre.arg # NoSize /\ pre.arg # pre.numAgents
      THEN /\ society.institutionalQuality = Society.institutionalQuality
           /\ society.gini = Society.gini
           /\ society.externalThreat = Society.externalThreat
           /\ society.polarization = Society.polarization
           /\ society.perceivedThreat = Society.perceivedThreat
           /\ society.diversity = Society.diversity
      ELSE /\ society.institutionalQuality
                = pre.society.institutionalQuality
           /\ society.gini = pre.society.gini
           /\ society.externalThreat = pre.society.externalThreat
           /\ society.polarization = 2 * 10
           /\ society.perceivedThreat = 2 * 10
           /\ society.diversity = 5 * 10

\* a reset in place that kept a value other than the construction default
C30_Witness ==
    /\ lastOp = "reset"
    /\ ~(pre.arg # NoSize /\ pre.arg # pre.numAgents)
    /\ \/ society.institutionalQuality # Society.institutionalQuality
       \/ society.externalThreat # Society.externalThreat
       \/ society.gini # Society.gini

\* the fields getNeighborhoodAverage is asked for
AveragedFields == {"democraticAdherence", "civicEnergy"}

\* computeSecurity of agent i with the given relative-wealth term
SecurityWithTerm(ags, i, soc, params, term) ==
    params.delta1 * term * Scale
      + params.delta2 * soc.institutionalQuality * Scale
      - params.delta3 * soc.precarity * Scale
      - params.delta4 * soc.perceivedThreat * Scale
      - params.delta5 * ags[i].permeability * soc.polarization

TotalWealth(ags) == SumSeq(ags, "wealth", SeqOfIds(Size(ags)))

\* C22: on degenerate inputs the functions fall back to a fixed value:
\* calculateGini is 0 when the total wealth is 0 (and the gini a step
\* stores is then 0), computeSecurity uses the relative-wealth term 1
\* when the mean wealth is 0, and getNeighborhoodAverage of an agent
\* without neighbours is the agent's own value of the field.
C22_DegenerateFallbacks ==
    /\ TotalWealth(agents) = 0 =>
         /\ calculateGini(agents) = 0
         /\ lastOp = "step" => society.gini = 0
    /\ getAverage(agents, "wealth") = 0 =>
         \A i \in DOMAIN agents :
           computeSecurity(agents, i, society, parameters)
             = SecurityWithTerm(agents, i, society, parameters, Scale)
    /\ \A i \in DOMAIN agents :
         Len(agents[i].neighbors) = 0 =>
           \A f \in AveragedFields :
             getNeighborhoodAverage(agents, i, f) = agents[i][f]

\* a step was taken by a lone agent without wealth: no neighbours, total
\* and mean wealth 0
C22_Witness ==
    /\ lastOp = "step"
    /\ \E i \in DOMAIN agents :
         /\ Len(agents[i].neighbors) = 0
         /\ agents[i].democraticAdherence # 0
    /\ TotalWealth(agents) = 0
    /\ getAverage(agents, "wealth") = 0
    /\ society.gini = 0

\* C23: while running is false the animation loop executes no step: a
\* frame leaves time, agents, society and history as they were; start
\* and pause change nothing but the flag.
C23_PausedFramesAreIdle ==
    /\ [][(lastOp' = "animate" /\ uiEvents' = uiEvents + 1 /\ ~running)
            => /\ time' = time /\ agents' = agents
               /\ society' = society /\ history' = history
               /\ steps' = steps]_vars
    /\ [][(uiEvents' = uiEvents + 1
             /\ lastOp' \in {"startSimulation", "pauseSimulation"}
             /\ animationFrameId # 0)
            => /\ time' = time /\ agents' = agents
               /\ society' = society /\ history' = history
               /\ steps' = steps /\ parameters' = parameters
               /\ dt' = dt /\ numAgents' = numAgents]_vars

\* a frame has run while the simulation was paused after having stepped
C23_Witness ==
    /\ lastOp = "animate"
    /\ ~running
    /\ steps >= stepsPerFrame
    /\ time > 0

\* C28: at most one animation frame is requested at any time, it is the
\* one animationFrameId names, and every frame of a running simulation
\* advances it by exactly 5 steps.
C28_SingleAnimationLoop ==
    /\ [](/\ Cardinality(scheduled) <= 1
          /\ animationFrameId # 0 => scheduled = {animationFrameId}
          /\ animationFrameId = 0 => scheduled = {})
    /\ [][(lastOp' = "animate" /\ uiEvents' = uiEvents + 1 /\ running)
            => steps' = steps + 5]_vars

\* a frame of a simulation that was started, reset and started again
C28_Witness ==
    /\ lastOp = "animate"
    /\ running
    /\ framesRequested >= 3
    /\ Cardinality(scheduled) = 1
    /\ steps >= 3 * 5

\* C29: once resetSimulation has run, the simulator is not running and
\* executes no step until Start is clicked again.
C29_StoppedUntilStart ==
    /\ [](resetSinceStart => ~running)
    /\ [][(resetSinceStart /\ resetSinceStart') => steps' = steps]_vars

\* the contact fields of agent a are those of a pass in which it drew d
\* while its toleranceCultural was tolerance
ContactsOfDraw(a, d, tolerance) ==
    /\ a.positiveContacts >= 0 /\ a.positiveContacts <= Scale \div 2
    /\ a.negativeContacts >= 0 /\ a.negativeContacts <= Scale \div 2
    /\ a.positiveContacts = 0 \/ a.negativeContacts = 0
    /\ a.positiveContacts # 0 => tolerance > 0
    /\ a.negativeContacts # 0 => tolerance <= 0
    /\ ~d.hit => (a.positiveContacts = 0 /\ a.negativeContacts = 0)
    /\ d.hit =>
         IF tolerance > 0 THEN a.positiveContacts = d.intensity
                          ELSE a.negativeContacts = d.intensity

\* C24: after every contact pass each agent's positiveContacts and
\* negativeContacts are in [0, 0.5], at most one is non-zero, positive
\* only with toleranceCultural > 0 at the pass and negative only with
\* toleranceCultural <= 0, and an agent that drew no contact has both at
\* 0 whatever the earlier steps left; the step keeps them to its end.
C24_ContactPass ==
    lastOp = "step" =>
      \A i \in DOMAIN agents :
        /\ ContactsOfDraw(pre.agents[i], pre.draws[i],
                          pre.agents[i].toleranceCultural)
        /\ ContactsOfDraw(agents[i], pre.draws[i],
                          pre.agents[i].toleranceCultural)

\* second step: one agent drew a positive contact, another drew none
C24_Witness ==
    /\ lastOp = "step"
    /\ steps = 2
    /\ \E i, j \in DOMAIN agents :
         /\ pre.draws[i].hit /\ agents[i].positiveContacts > 0
         /\ ~pre.draws[j].hit /\ agents[j].positiveContacts = 0
         /\ agents[j].negativeContacts = 0

\* the agents a neighbour list names
Listed(nb) == {nb[k] : k \in DOMAIN nb}

\* j comes before m in agent i's stable sort by distance
NearerInOrder(ags, i, j, m) ==
    \/ Distance2(ags, i, j) < Distance2(ags, i, m)
    \/ Distance2(ags, i, j) = Distance2(ags, i, m) /\ j < m

\* agent i's neighbour list is the one the construction gives
NeighbourhoodAsBuilt(ags, i) ==
    LET nb == ags[i].neighbors
        others == (DOMAIN ags) \ {i}
        near == {j \in others :
                   Distance2(ags, i, j)
                     < neighborhoodRadius * neighborhoodRadius}
    IN /\ i \notin Listed(nb)
       /\ Len(nb) > 0
       /\ Cardinality(Listed(nb)) = Len(nb)
       /\ IF near # {}
          THEN Listed(nb) = near
          ELSE /\ Len(nb) = Min2(5, Size(ags) - 1)
               /\ Listed(nb) \subseteq others
               /\ \A j \in Listed(nb), m \in others \ Listed(nb) :
                    NearerInOrder(ags, i, j, m)

FixedFields ==
    {"id", "x", "y", "neighbors", "wealth", "education",
     "toleranceEconomic", "tolerancePhysical"}

\* the fields a reset does not redraw
IdentityFields == {"id", "x", "y", "neighbors"}

\* C26: Simulator.step and Agent.update leave every agent's id, position,
\* neighbour set, wealth, education, toleranceEconomic and
\* tolerancePhysical as they were, a step leaves the society's diversity
\* and externalThreat as they were, and Agent.reset leaves id, position
\* and neighbour set as they were.
C26_StepFrame ==
    /\ [][(lastOp' \in {"step", "Agent.update"}
             /\ (steps' # steps \/ calls' # calls))
            => /\ DOMAIN agents' = DOMAIN agents
               /\ \A i \in DOMAIN agents : \A f \in FixedFields :
                    agents'[i][f] = agents[i][f]
               /\ lastOp' = "step" =>
                    /\ society'.diversity = society.diversity
                    /\ society'.externalThreat = society.externalThreat]_vars
    /\ [][(lastOp' = "reset" /\ calls' # calls /\ numAgents' = numAgents)
            => /\ DOMAIN agents' = DOMAIN agents
               /\ \A i \in DOMAIN agents : \A f \in IdentityFields :
                    agents'[i][f] = agents[i][f]]_vars

\* a step has run on agents that a reset in place had redrawn, and it
\* moved an evolved field
C26_Witness ==
    /\ lastOp = "step"
    /\ calls >= 1
    /\ \E i \in DOMAIN agents :
         /\ agents[i].security # pre.agents[i].security
         /\ agents[i].wealth = pre.agents[i].wealth
         /\ Len(agents[i].neighbors) > 0

\* the edge an iteration moves to mid when the evaluation gives psiMid
MovesLow(psiMid) ==
    \/ isIncreasing /\ psiMid < callArgs.targetPsi
    \/ ~isIncreasing /\ psiMid >= callArgs.targetPsi

\* C27: with pMin <= pMax the bracket satisfies pMin <= low <= high <=
\* pMax at every iteration; an iteration moves exactly one edge to the
\* midpoint, low when psi increases and psi(mid) < target or psi does not
\* increase and psi(mid) >= target, high otherwise; the value returned is
\* in [pMin, pMax].
C27_BracketInvariant ==
    /\ [](pc = "loop" =>
            /\ callArgs.pMin <= low /\ low <= high
            /\ high <= callArgs.pMax)
    /\ [][iteration' = iteration + 1 =>
            \E psiMid \in simulateToSteadyState(response,
                                                (low + high) \div 2) :
              IF MovesLow(psiMid)
              THEN low' = (low + high) \div 2 /\ high' = high
              ELSE high' = (low + high) \div 2 /\ low' = low]_vars
    /\ [](pc = "done" =>
            callArgs.pMin <= result /\ result <= callArgs.pMax)

\* a search with 0 < pMin has moved both edges and returned a value
\* strictly inside the range
C27_Witness ==
    /\ pc = "done"
    /\ callArgs.pMin > 0
    /\ iteration >= 2
    /\ low > callArgs.pMin /\ high < callArgs.pMax
    /\ result > callArgs.pMin /\ result < callArgs.pMax

====
